---- MODULE Spec2Model ----
(***************************************************************************)
(* Model of the runn-mcp-server tool layer (index.ts) and of its pure      *)
(* helpers (helpers.ts).                                                   *)
(*                                                                         *)
(*  - fetch layer: withRetry, paginate and the shared data fetchers, one   *)
(*    slot per upstream fetch of a tool operation;                         *)
(*  - tool handlers: the Promise.all fan-out / sequential awaits, the      *)
(*    try/catch boundary and errorResult;                                  *)
(*  - pure helpers, applied to inputs drawn from bounded sets.             *)
(*                                                                         *)
(* JavaScript values are encoded as integers where the code only tests     *)
(* truthiness or equality: cursor 0 is undefined, -1 is the empty string,  *)
(* -2 is null, k >= 1 is a non-empty cursor string; status 0 is undefined. *)
(***************************************************************************)
EXTENDS Integers, Sequences, FiniteSets, TLC

VARIABLES
  env,        \* the upstream collections and the arguments of the running operation
  fetch,      \* the fetch slots of the running operation
  failures,   \* upstream failures so far
  join,       \* the promise the handler awaits (Promise.all of the slots)
  firstFail,  \* history: the slot that failed first
  hpc,        \* position of the tool handler
  thrown,     \* the error caught by the handler's catch block
  computed,   \* the aggregation / filter steps the handler has run
  result,     \* the payload the handler returned
  call, ret   \* a helper call on in-memory data and its return value

vars == <<env, fetch, failures, join, firstFail, hpc, thrown, computed, result, call, ret>>

handlerVars == <<hpc, thrown, computed, result>>
fnVars == <<call, ret>>

----------------------------------------------------------------------------
(* Bounds of the model *)

\* longest chain of distinct pages an upstream collection is given
MaxChain == 12
\* upstream failures injected into one paginate / withRetry run
MaxFailures == 4
\* upstream failures injected into one run of a tool operation
MaxToolFailures == 2
\* pages of the paged collections behind a tool operation
MaxToolPages == 1
\* lengths of the collections handed to a helper
MaxPeople == 2
MaxActuals == 2
MaxProjects == 2
MaxAssignments == 2
MaxWeeks == 2

----------------------------------------------------------------------------
(* Encoded JavaScript values *)

Undefined == 0
EmptyString == 0 - 1
Null == 0 - 2
NoStatus == 0
NoHeader == 0 - 1

\* JS truthiness of an optional cursor string
Truthy(c) == c >= 1

----------------------------------------------------------------------------
(* Upstream: a paged collection.  Page i (0-based) is requested with cursor *)
(* i (the first page with no cursor); pages 0..len-2 carry the cursor of    *)
(* the next page, the last page of the chain carries `tail`: a falsy value  *)
(* (the collection ends) or the cursor of an earlier page (a cursor loop).  *)

Sources ==
  { [len |-> l, tail |-> t, pat |-> p] :
      l \in {n \in 1..MaxChain : TRUE}, t \in {Undefined, EmptyString, Null} \cup (1..MaxChain), p \in 0..2 }

WellFormedSources == { s \in Sources : s.tail < s.len }

NextCursorOf(src, c) == IF c + 1 < src.len THEN c + 1 ELSE src.tail

\* the values field of page i: present with one item, absent, or two items
PageHasValues(src, i) == (i + src.pat) % 3 # 1
PageValues(src, i) ==
  CASE (i + src.pat) % 3 = 0 -> <<10 * i>>
    [] (i + src.pat) % 3 = 1 -> <<>>
    [] OTHER -> <<10 * i + 1, 10 * i + 2>>

PageOf(src, c) ==
  [hasValues |-> PageHasValues(src, c), values |-> PageValues(src, c),
   nextCursor |-> NextCursorOf(src, c)]

(* Upstream errors: the status on err.response, the status on the error    *)
(* itself, and the Retry-After header of the response.                     *)
MkErr(rs, os, ra) ==
  [name |-> "AxiosError", respStatus |-> rs, ownStatus |-> os, retryAfter |-> ra]

HttpErr(s) == MkErr(s, NoStatus, NoHeader)

AllErrors ==
  { HttpErr(s) : s \in {400, 404, 429, 499, 500, 503, 599, 600} }
    \cup { MkErr(429, NoStatus, 3), MkErr(503, NoStatus, 0),
           MkErr(NoStatus, 503, NoHeader), MkErr(NoStatus, 404, NoHeader),
           MkErr(NoStatus, NoStatus, NoHeader) }

FewErrors == { HttpErr(503), HttpErr(404) }

NoErr == [name |-> "none", respStatus |-> NoStatus, ownStatus |-> NoStatus, retryAfter |-> NoHeader]

\* an error thrown by a computation on malformed data
TypeErr == [name |-> "TypeError", respStatus |-> NoStatus, ownStatus |-> NoStatus, retryAfter |-> NoHeader]

\* err.message
Msg(e) ==
  CASE e.name = "TypeError" -> <<"Cannot read properties of null", 0>>
    [] e.respStatus # NoStatus -> <<"Request failed with status code", e.respStatus>>
    [] e.ownStatus # NoStatus -> <<"Request failed", e.ownStatus>>
    [] OTHER -> <<"Network Error", 0>>

----------------------------------------------------------------------------
(* withRetry *)

maxRetries == 3

\* const status = err?.response?.status ?? err?.status
ErrStatus(e) == IF e.respStatus # NoStatus THEN e.respStatus ELSE e.ownStatus

\* variant: every 4xx and 5xx status is taken to be retryable
RetryableAnyHttpError(status) == status >= 400 /\ status < 600

\* const retryable = status === 429 || (status >= 500 && status < 600)
Retryable(status) == status = 429 \/ (status >= 500 /\ status < 600)

\* variant: off by one in the retry bound
RethrowsOneLate(e, attempt) == ~Retryable(ErrStatus(e)) \/ attempt > maxRetries

\* if (!retryable || attempt >= maxRetries) throw err
Rethrows(e, attempt) == ~Retryable(ErrStatus(e)) \/ attempt >= maxRetries

Pow2(n) == IF n = 0 THEN 1 ELSE IF n = 1 THEN 2 ELSE IF n = 2 THEN 4 ELSE 8

\* variant: the Retry-After header is ignored
DelaySecNoHeader(e, attempt) == Pow2(attempt)

\* const delaySec = retryAfter ? parseFloat(retryAfter) : Math.pow(2, attempt)
DelaySec(e, attempt) ==
  IF e.retryAfter # NoHeader THEN e.retryAfter ELSE Pow2(attempt)

----------------------------------------------------------------------------
(* paginate *)

PageCap == 10

\* all.push(...(result.values || []))
PushValues(all, page) == all \o (IF page.hasValues THEN page.values ELSE <<>>)

\* variant: off by one in the page cap
CapReachedOneLate(pages) == pages > PageCap

\* if (pages >= 10) break
CapReached(pages) == pages >= PageCap

\* variant: the cursor is not advanced
CursorAfterStale(cursor, page) == cursor

\* cursor = result.nextCursor
CursorAfter(cursor, page) == page.nextCursor

\* } while (cursor)
LoopAgain(cursor) == Truthy(cursor)

----------------------------------------------------------------------------
(* A fetch slot: one promise started by a handler.  kind "paged" is a       *)
(* paginate() over withRetry, "retry" a single request under withRetry,     *)
(* "bare" a single request that is awaited directly.                        *)

Slot0(kind) ==
  [kind |-> kind, pc |-> "idle", attempt |-> 0, all |-> <<>>, cursor |-> Undefined,
   pages |-> 0, err |-> NoErr, delay |-> 0,
   \* history: requests of the current withRetry call, their failures, the
   \* cursor of the last request, pages received and the last page's cursor
   tries |-> 0, fails |-> <<>>, reqCursor |-> Undefined, received |-> 0,
   lastNext |-> Undefined, open |-> 0]

\* the fetcher is invoked: the start of a withRetry call (attempt = 0)
Invoke(s) ==
  [s EXCEPT !.pc = "inflight", !.attempt = 0, !.tries = 1, !.fails = <<>>,
            !.reqCursor = s.cursor, !.open = s.open + 1]

\* variant: the retry asks for the first page again
ReinvokeFirstPage(s) ==
  [s EXCEPT !.pc = "inflight", !.attempt = s.attempt + 1, !.tries = s.tries + 1,
            !.reqCursor = Undefined, !.open = s.open + 1]

\* the next iteration of the for loop of withRetry, after the backoff
Reinvoke(s) ==
  [s EXCEPT !.pc = "inflight", !.attempt = s.attempt + 1, !.tries = s.tries + 1,
            !.reqCursor = s.cursor, !.open = s.open + 1]

\* paginate's loop body after a page arrived
OnPage(s, page) ==
  LET all1 == PushValues(s.all, page)
      cur1 == CursorAfter(s.cursor, page)
      pages1 == s.pages + 1
      s1 == [s EXCEPT !.all = all1, !.cursor = cur1, !.pages = pages1, !.open = s.open - 1,
                      !.received = s.received + 1, !.lastNext = page.nextCursor]
  IN IF CapReached(pages1) \/ ~LoopAgain(cur1)
       THEN [s1 EXCEPT !.pc = "ok"]
       ELSE Invoke(s1)

\* the catch block of withRetry
OnError(s, e) ==
  LET s1 == [s EXCEPT !.fails = Append(s.fails, e), !.open = s.open - 1]
  IN IF Rethrows(e, s.attempt)
       THEN [s1 EXCEPT !.pc = "failed", !.err = e]
       ELSE [s1 EXCEPT !.pc = "backoff", !.delay = DelaySec(e, s.attempt)]

\* Promise.all over the slots: fulfilled once every slot is, rejected with
\* the reason of the first slot to reject; settled once.
Pending == [st |-> "pending", err |-> NoErr]

\* variant: the last rejection wins
JoinAfterLastWins(j, slots, f) ==
  IF slots[f].pc = "failed" THEN [st |-> "rejected", err |-> slots[f].err]
  ELSE IF \A g \in DOMAIN slots : slots[g].pc = "ok" THEN [st |-> "fulfilled", err |-> NoErr]
  ELSE j

JoinAfter(j, slots, f) ==
  IF j.st # "pending" THEN j
  ELSE IF slots[f].pc = "failed" THEN [st |-> "rejected", err |-> slots[f].err]
  ELSE IF \A g \in DOMAIN slots : slots[g].pc = "ok" THEN [st |-> "fulfilled", err |-> NoErr]
  ELSE j

\* variant: a backoff anywhere holds every response back
RespondOkAfterBackoffs(f) ==
  /\ fetch[f].pc = "inflight"
  /\ \A g \in DOMAIN fetch : fetch[g].pc # "backoff"
  /\ fetch' = [fetch EXCEPT ![f] =
       IF fetch[f].kind = "paged"
         THEN OnPage(fetch[f], PageOf(env.src[f], fetch[f].reqCursor))
         ELSE [fetch[f] EXCEPT !.pc = "ok", !.received = 1, !.open = fetch[f].open - 1]]
  /\ join' = JoinAfter(join, fetch', f)
  /\ UNCHANGED <<env, failures, firstFail>>

\* the upstream answers the request in flight of slot f with a page / a response
RespondOk(f) ==
  /\ fetch[f].pc = "inflight"
  /\ fetch' = [fetch EXCEPT ![f] =
       IF fetch[f].kind = "paged"
         THEN OnPage(fetch[f], PageOf(env.src[f], fetch[f].reqCursor))
         ELSE [fetch[f] EXCEPT !.pc = "ok", !.received = 1, !.open = fetch[f].open - 1]]
  /\ join' = JoinAfter(join, fetch', f)
  /\ UNCHANGED <<env, failures, firstFail>>

\* the upstream answers the request in flight of slot f with an error
RespondErr(f, e) ==
  /\ fetch[f].pc = "inflight"
  /\ failures < env.maxFailures
  /\ failures' = failures + 1
  /\ fetch' = [fetch EXCEPT ![f] =
       IF fetch[f].kind = "bare"
         THEN [fetch[f] EXCEPT !.pc = "failed", !.err = e, !.open = fetch[f].open - 1,
                               !.fails = Append(fetch[f].fails, e)]
         ELSE OnError(fetch[f], e)]
  /\ join' = JoinAfter(join, fetch', f)
  /\ firstFail' = IF firstFail = "none" /\ fetch'[f].pc = "failed" THEN f ELSE firstFail
  /\ UNCHANGED env

\* the backoff timer of slot f fires
BackoffElapsed(f) ==
  /\ fetch[f].pc = "backoff"
  /\ fetch' = [fetch EXCEPT ![f] = Reinvoke(fetch[f])]
  /\ UNCHANGED <<env, failures, join, firstFail>>

\* a caller starts the fetch of slot f
StartFetch(f) ==
  /\ fetch[f].pc = "idle"
  /\ fetch' = [fetch EXCEPT ![f] = Invoke(fetch[f])]
  /\ UNCHANGED <<env, failures, join, firstFail>>

----------------------------------------------------------------------------
(* Specification of one fetch in isolation: paginate over any collection,   *)
(* and withRetry over any error the upstream can answer with.               *)

OnePage == [len |-> 1, tail |-> Undefined, pat |-> 0]

NoResult == [isError |-> FALSE, text |-> <<>>]
NoCall == [fn |-> "none"]
NoRet == [fn |-> "none"]

FetchEnvs ==
  { [op |-> "fetch", arg |-> "omitted", maxFailures |-> MaxFailures, src |-> [f \in {"list"} |-> s], errors |-> FewErrors] :
      s \in WellFormedSources }
    \cup
  { [op |-> "fetch", arg |-> "omitted", maxFailures |-> MaxFailures, src |-> [f \in {"list"} |-> OnePage], errors |-> AllErrors] }

InitFetch ==
  /\ env \in FetchEnvs
  /\ fetch = [f \in {"list"} |-> Slot0("paged")]
  /\ failures = 0 /\ join = Pending /\ firstFail = "none"
  /\ hpc = "none" /\ thrown = NoErr /\ computed = {} /\ result = NoResult
  /\ call = NoCall /\ ret = NoRet

Start == \E f \in DOMAIN fetch : StartFetch(f) /\ UNCHANGED <<handlerVars, fnVars>>
Ok == \E f \in DOMAIN fetch : RespondOk(f) /\ UNCHANGED <<handlerVars, fnVars>>
Fail == \E f \in DOMAIN fetch : \E e \in env.errors : RespondErr(f, e) /\ UNCHANGED <<handlerVars, fnVars>>
Backoff == \E f \in DOMAIN fetch : BackoffElapsed(f) /\ UNCHANGED <<handlerVars, fnVars>>

NextFetch == Start \/ Ok \/ Fail \/ Backoff

SpecFetch == InitFetch /\ [][NextFetch]_vars

----------------------------------------------------------------------------
(* withRetry with its timer: `call` is the pending setTimeout of the        *)
(* backoff and counts the seconds waited since it was set                   *)

InitBackoff ==
  /\ env = [op |-> "fetch", arg |-> "omitted", maxFailures |-> MaxFailures,
            src |-> [f \in {"list"} |-> OnePage], errors |-> AllErrors]
  /\ fetch = [f \in {"list"} |-> Slot0("paged")]
  /\ failures = 0 /\ join = Pending /\ firstFail = "none"
  /\ hpc = "none" /\ thrown = NoErr /\ computed = {} /\ result = NoResult
  /\ call = [fn |-> "setTimeout", waited |-> 0] /\ ret = NoRet

\* the request fails; a retryable failure sets the timer
TimedFail ==
  \E f \in DOMAIN fetch : \E e \in env.errors :
    /\ RespondErr(f, e)
    /\ call' = [call EXCEPT !.waited = 0]
    /\ UNCHANGED <<handlerVars, ret>>

\* a second passes while the timer is pending
TimerTick ==
  \E f \in DOMAIN fetch :
    /\ fetch[f].pc = "backoff" /\ call.waited < fetch[f].delay
    /\ call' = [call EXCEPT !.waited = call.waited + 1]
    /\ UNCHANGED <<env, fetch, failures, join, firstFail, handlerVars, ret>>

\* await setTimeout(delaySec * 1000) resolves once the delay has passed
TimerFires ==
  \E f \in DOMAIN fetch :
    /\ call.waited >= fetch[f].delay
    /\ BackoffElapsed(f)
    /\ UNCHANGED <<handlerVars, fnVars>>

NextBackoff == Start \/ Ok \/ TimedFail \/ TimerTick \/ TimerFires

SpecBackoff == InitBackoff /\ [][NextBackoff]_vars

----------------------------------------------------------------------------
(* Tool handlers *)

Tools ==
  {"get_team_utilization", "get_project_overview", "get_capacity_forecast",
   "get_person_details", "search_resources"}

ResourceTypes == <<"people", "projects", "clients">>

\* const type = resourceType ?? "all"
ResourceType(arg) == IF arg = "omitted" THEN "all" ELSE arg

\* if (type === "all" || type === "people") ... "projects" ... "clients"
Requested(arg) ==
  SelectSeq(ResourceTypes, LAMBDA t : ResourceType(arg) = "all" \/ ResourceType(arg) = t)

\* the upstream fetches of each operation: fetchPeople, fetchAssignments,
\* fetchProjects, fetchClients, fetchActuals, fetchLeave paginate;
\* getPerson and listPersonSkills are wrapped in withRetry; fetchTeams,
\* fetchRoles and fetchSkills await the list call directly
SlotKinds(op, arg) ==
  CASE op = "get_team_utilization" ->
         [people |-> "paged", assignments |-> "paged", actuals |-> "paged",
          teams |-> "bare", roles |-> "bare"]
    [] op = "get_project_overview" ->
         [projects |-> "paged", assignments |-> "paged", actuals |-> "paged",
          clients |-> "paged", teams |-> "bare", people |-> "paged", roles |-> "bare"]
    [] op = "get_capacity_forecast" ->
         [people |-> "paged", assignments |-> "paged", projects |-> "paged",
          leave |-> "paged", teams |-> "bare"]
    [] op = "get_person_details" ->
         [person |-> "retry", personSkills |-> "retry", assignments |-> "paged",
          projects |-> "paged", skills |-> "bare", roles |-> "bare", teams |-> "bare"]
    [] op = "search_resources" ->
         [t \in {Requested(arg)[i] : i \in 1..Len(Requested(arg))} |-> "paged"]

\* search_resources awaits its fetches one after the other; the other
\* handlers await Promise.all of theirs
Sequential(op) == op = "search_resources"

\* the function the handler hands the fetched collections to
Aggregation(op) ==
  CASE op = "get_team_utilization" -> "computeUtilization"
    [] op = "get_project_overview" -> "enrichProjectOverview"
    [] op = "get_capacity_forecast" -> "computeCapacityForecast"
    [] op = "get_person_details" -> "enrichPersonDetails"
    [] OTHER -> "filter"

\* variant: only the first fetch is started before the handler awaits
StartedAtCallFirstOnly(op, arg) ==
  {CHOOSE f \in DOMAIN SlotKinds(op, arg) : TRUE}

\* the fetches started synchronously when the handler is called
StartedAtCall(op, arg) ==
  IF Sequential(op) THEN {Requested(arg)[1]} ELSE DOMAIN SlotKinds(op, arg)

\* variant: the fetches are awaited outside the try block
GuardedComputeOnly(op, step) == step = "compute"

\* the handler body, fetches and computation, is inside try { } catch
Guarded(op, step) == step \in {"fetch", "compute"}

\* variant: the tool name is not part of the text
ErrorResultUntagged(toolName, e) ==
  [isError |-> TRUE, text |-> <<"Error", Msg(e)>>]

\* errorResult: text `Error in ${toolName}: ${message}`, isError true
ErrorResult(toolName, e) ==
  [isError |-> TRUE, text |-> <<"Error in", toolName, Msg(e)>>]

\* { content: [{ type: "text", text: JSON.stringify(result, null, 2) }] }
TextResult(op) == [isError |-> FALSE, text |-> <<"result", op>>]

\* an error e raised at `step` of the handler body
Raise(step, e) ==
  /\ thrown' = e
  /\ IF Guarded(env.op, step)
       THEN hpc' = "done" /\ result' = ErrorResult(env.op, e)
       ELSE hpc' = "escaped" /\ UNCHANGED result

\* the handler is called: it starts its fetches and awaits
HandlerStart ==
  /\ hpc = "ready"
  /\ fetch' = [f \in DOMAIN fetch |->
                 IF f \in StartedAtCall(env.op, env.arg) THEN Invoke(fetch[f]) ELSE fetch[f]]
  /\ hpc' = IF Sequential(env.op) THEN Requested(env.arg)[1] ELSE "all"
  /\ UNCHANGED <<env, failures, join, firstFail, thrown, computed, result, fnVars>>

\* await Promise.all([...]) throws the rejection
HandlerRejected ==
  /\ hpc = "all" /\ join.st = "rejected"
  /\ Raise("fetch", join.err)
  /\ UNCHANGED <<env, fetch, failures, join, firstFail, computed, fnVars>>

\* await Promise.all([...]) returns: the aggregation is called on the
\* collections and returns, or throws on malformed data
HandlerAggregate ==
  /\ hpc = "all" /\ join.st = "fulfilled"
  /\ computed' = computed \cup {Aggregation(env.op)}
  /\ \E throws \in BOOLEAN :
       IF throws THEN Raise("compute", TypeErr)
       ELSE hpc' = "done" /\ result' = TextResult(env.op) /\ thrown' = thrown
  /\ UNCHANGED <<env, fetch, failures, join, firstFail, fnVars>>

\* search_resources: the awaited fetch returned; its values are filtered,
\* then the next requested collection is fetched or the results returned
SearchFiltered ==
  /\ Sequential(env.op) /\ hpc \in DOMAIN fetch /\ fetch[hpc].pc = "ok"
  /\ computed' = computed \cup {hpc}
  /\ LET req == Requested(env.arg)
         i == CHOOSE k \in 1..Len(req) : req[k] = hpc
     IN \E throws \in BOOLEAN :
          IF throws THEN Raise("compute", TypeErr) /\ UNCHANGED fetch
          ELSE IF i < Len(req)
            THEN /\ fetch' = [fetch EXCEPT ![req[i + 1]] = Invoke(@)]
                 /\ hpc' = req[i + 1]
                 /\ UNCHANGED <<thrown, result>>
            ELSE /\ hpc' = "done" /\ result' = TextResult(env.op)
                 /\ UNCHANGED <<thrown, fetch>>
  /\ UNCHANGED <<env, failures, join, firstFail, fnVars>>

\* search_resources: the awaited fetch threw
SearchRejected ==
  /\ Sequential(env.op) /\ hpc \in DOMAIN fetch /\ fetch[hpc].pc = "failed"
  /\ Raise("fetch", fetch[hpc].err)
  /\ UNCHANGED <<env, fetch, failures, join, firstFail, computed, fnVars>>

\* the assignments collection (the first requested one for search_resources)
\* has 1..MaxToolPages pages, every other collection one page
LongSlot(op, arg) == IF Sequential(op) THEN Requested(arg)[1] ELSE "assignments"

ToolEnvs ==
  { [op |-> o, arg |-> a, maxFailures |-> MaxToolFailures, errors |-> FewErrors,
     src |-> [f \in DOMAIN SlotKinds(o, a) |->
                IF f = LongSlot(o, a) THEN [len |-> n, tail |-> Undefined, pat |-> 0] ELSE OnePage]] :
      o \in Tools, a \in {"omitted", "people", "projects", "clients", "all"},
      n \in 1..MaxToolPages }

InitTools ==
  /\ env \in { e \in ToolEnvs : Sequential(e.op) \/ e.arg = "omitted" }
  /\ fetch = [f \in DOMAIN SlotKinds(env.op, env.arg) |-> Slot0(SlotKinds(env.op, env.arg)[f])]
  /\ failures = 0 /\ firstFail = "none"
  /\ join = IF Sequential(env.op) THEN [st |-> "none", err |-> NoErr] ELSE Pending
  /\ hpc = "ready" /\ thrown = NoErr /\ computed = {} /\ result = NoResult
  /\ call = NoCall /\ ret = NoRet

NextTools ==
  \/ HandlerStart
  \/ Ok \/ Fail \/ Backoff
  \/ HandlerRejected \/ HandlerAggregate
  \/ SearchFiltered \/ SearchRejected

SpecTools == InitTools /\ [][NextTools]_vars

----------------------------------------------------------------------------
(* In-memory data (helpers.ts).  Ids and numbers are integers; for an id a  *)
(* falsy value (undefined or 0) is 0; an absent number is AbsentNum.  A     *)
(* string is a sequence of characters: 0 is the space, 1..9 are lower-case  *)
(* letters and 11..19 the same letters in upper case; NoStr is undefined    *)
(* and NullStr is null.                                                    *)

AbsentNum == 0 - 1
NoStr == <<0 - 1>>
NullStr == <<0 - 2>>
NoRec == [id |-> 0 - 1, name |-> NoStr]

IsStr(x) == x # NoStr /\ x # NullStr
\* truthiness of an optional string
StrTruthy(x) == IsStr(x) /\ x # <<>>

ToLowerCase(x) == [i \in 1..Len(x) |-> IF x[i] > 10 THEN x[i] - 10 ELSE x[i]]

RECURSIVE TrimStart(_)
TrimStart(x) == IF x # <<>> /\ Head(x) = 0 THEN TrimStart(Tail(x)) ELSE x

RECURSIVE TrimEnd(_)
TrimEnd(x) ==
  IF x # <<>> /\ x[Len(x)] = 0 THEN TrimEnd(SubSeq(x, 1, Len(x) - 1)) ELSE x

Trim(x) == TrimEnd(TrimStart(x))

\* x.includes(q)
Includes(x, q) ==
  \E i \in 0..(Len(x) - Len(q)) : SubSeq(x, i + 1, i + Len(q)) = q

\* v || 0
OrZero(v) == IF v = AbsentNum THEN 0 ELSE v

\* new Map(xs.map((x) => [x.id, x])).get(id): the last record with that id
MapHas(xs, id) == \E i \in 1..Len(xs) : xs[i].id = id
MapGet(xs, id) ==
  IF MapHas(xs, id)
    THEN LET k == CHOOSE i \in 1..Len(xs) :
                    xs[i].id = id /\ \A j \in (i + 1)..Len(xs) : xs[j].id # id
         IN xs[k]
    ELSE NoRec

\* variant: x.name || null, reading the name of a record that is absent
\* raises a TypeError (<<0 - 9>>)
NameOrThrow(rec) ==
  IF rec = NoRec THEN <<0 - 9>> ELSE IF StrTruthy(rec.name) THEN rec.name ELSE NullStr

\* x?.name || null
NameOrNull(rec) == IF rec # NoRec /\ StrTruthy(rec.name) THEN rec.name ELSE NullStr

\* personName: `${p.firstName || ""} ${p.lastName || ""}`.trim() || `Person ${p.id}`
PersonName(p) ==
  LET full == Trim((IF StrTruthy(p.firstName) THEN p.firstName ELSE <<>>) \o <<0>>
                     \o (IF StrTruthy(p.lastName) THEN p.lastName ELSE <<>>))
  IN IF full # <<>> THEN full ELSE <<100, p.id>>

\* variant: rounds down
RoundDown(num, den) == (num * 10000) \div den

\* round((num / den) * 100): Math.round(n * 100) / 100, in hundredths
Round(num, den) == (2 * num * 10000 + den) \div (2 * den)

STANDARD_DAY_MINUTES == 480

RECURSIVE SumField(_, _, _)
\* the running totals of the loop over the actuals, for one person id
SumField(actuals, pid, field) ==
  IF actuals = <<>> THEN 0
  ELSE LET a == actuals[Len(actuals)]
           rest == SumField(SubSeq(actuals, 1, Len(actuals) - 1), pid, field)
       IN IF a.personId = pid THEN rest + OrZero(a[field]) ELSE rest

\* variant: non-billable minutes are counted as billable
ActualsOfBoth(actuals, pid) ==
  [billable |-> SumField(actuals, pid, "billableMinutes")
                  + SumField(actuals, pid, "nonbillableMinutes"),
   nonbillable |-> SumField(actuals, pid, "nonbillableMinutes")]

\* actualsByPerson.get(p.id) || { billable: 0, nonbillable: 0 }
ActualsOf(actuals, pid) ==
  [billable |-> SumField(actuals, pid, "billableMinutes"),
   nonbillable |-> SumField(actuals, pid, "nonbillableMinutes")]

\* assignmentsByPerson.get(p.id) || []
AssignmentsOf(assignments, pid) == SelectSeq(assignments, LAMBDA a : a.personId = pid)

\* const pTeams = p.teamIds || (p.teamId ? [p.teamId] : [])
PersonTeams(p) ==
  IF p.hasTeamIds THEN p.teamIds ELSE IF p.teamId # 0 THEN <<p.teamId>> ELSE <<>>

\* the people kept by the team-name filter
FilterPeople(people, teams, teamNameFilter) ==
  IF StrTruthy(teamNameFilter)
    THEN LET q == ToLowerCase(Trim(teamNameFilter))
             matchingTeamIds ==
               { teams[i].id : i \in { k \in 1..Len(teams) :
                   IsStr(teams[k].name) /\ Includes(ToLowerCase(teams[k].name), q) } }
         IN SelectSeq(people, LAMBDA p :
              \E i \in 1..Len(PersonTeams(p)) : PersonTeams(p)[i] \in matchingTeamIds)
    ELSE people

\* const utilization = availableMinutes > 0 ? round(...) : 0
Utilization(billable, availableMinutes) ==
  IF availableMinutes > 0 THEN Round(billable, availableMinutes) ELSE 0

\* variant: the role of the person's last assignment
PrimaryRoleIdOfLast(personAssignments) ==
  IF personAssignments # <<>> THEN personAssignments[Len(personAssignments)].roleId ELSE 0

\* const primaryRoleId = personAssignments[0]?.roleId
PrimaryRoleId(personAssignments) ==
  IF personAssignments # <<>> THEN personAssignments[1].roleId ELSE 0

\* one row of peopleResult
UtilizationRow(p, opts, availableMinutes) ==
  LET act == ActualsOf(opts.actuals, p.id)
      teamId == IF p.teamId # 0 THEN p.teamId
                ELSE IF p.hasTeamIds /\ p.teamIds # <<>> THEN p.teamIds[1] ELSE 0
      team == IF teamId # 0 THEN MapGet(opts.teams, teamId) ELSE NoRec
      personAssignments == AssignmentsOf(opts.assignments, p.id)
      primaryRoleId == PrimaryRoleId(personAssignments)
      role == IF primaryRoleId # 0 THEN MapGet(opts.roles, primaryRoleId) ELSE NoRec
  IN [id |-> p.id,
      name |-> PersonName(p),
      email |-> IF StrTruthy(p.email) THEN p.email ELSE NullStr,
      team |-> NameOrNull(team),
      role |-> IF NameOrNull(role) # NullStr THEN role.name
               ELSE IF StrTruthy(p.role) THEN p.role ELSE NullStr,
      utilizationPercent |-> Utilization(act.billable, availableMinutes),
      billableMinutes |-> act.billable,
      nonbillableMinutes |-> act.nonbillable,
      activeAssignments |-> Len(personAssignments)]

RECURSIVE SumRows(_, _)
SumRows(rows, field) ==
  IF rows = <<>> THEN 0 ELSE rows[1][field] + SumRows(Tail(rows), field)

\* the keys of teamStats in insertion order: first occurrences of the names
RECURSIVE TeamNames(_)
TeamNames(rows) ==
  IF rows = <<>> THEN <<>>
  ELSE LET before == TeamNames(SubSeq(rows, 1, Len(rows) - 1))
           n == IF rows[Len(rows)].team # NullStr THEN rows[Len(rows)].team ELSE <<101>>
       IN IF \E i \in 1..Len(before) : before[i] = n THEN before ELSE Append(before, n)

TeamSummaries(rows) ==
  LET names == TeamNames(rows)
      of(n) == SelectSeq(rows, LAMBDA r : (IF r.team # NullStr THEN r.team ELSE <<101>>) = n)
  IN [i \in 1..Len(names) |->
       [name |-> names[i],
        headcount |-> Len(of(names[i])),
        avgUtilization |-> (2 * SumRows(of(names[i]), "utilizationPercent") + Len(of(names[i])))
                             \div (2 * Len(of(names[i])))]]

\* computeUtilization; percentages are in hundredths of a percent, the
\* name <<100, id>> is `Person ${id}` and <<101>> is "Unassigned"
ComputeUtilization(opts) ==
  LET filteredPeople == FilterPeople(opts.people, opts.teams, opts.teamNameFilter)
      dateRangeDays == IF opts.dateRangeDays = AbsentNum THEN 20 ELSE opts.dateRangeDays
      availableMinutes == dateRangeDays * STANDARD_DAY_MINUTES
      peopleResult == [i \in 1..Len(filteredPeople) |->
                         UtilizationRow(filteredPeople[i], opts, availableMinutes)]
      n == Len(peopleResult)
  IN [summary |->
        [totalPeople |-> n,
         avgUtilizationPercent |->
           IF n > 0 THEN (2 * SumRows(peopleResult, "utilizationPercent") + n) \div (2 * n) ELSE 0,
         totalBillableMinutes |-> SumRows(peopleResult, "billableMinutes"),
         totalNonbillableMinutes |-> SumRows(peopleResult, "nonbillableMinutes")],
      teams |-> TeamSummaries(peopleResult),
      people |-> peopleResult]

----------------------------------------------------------------------------
(* computeUtilization applied to bounded inputs *)

Idle ==
  /\ env = [op |-> "none"] /\ fetch = <<>> /\ failures = 0
  /\ join = [st |-> "none", err |-> NoErr] /\ firstFail = "none"
  /\ hpc = "none" /\ thrown = NoErr /\ computed = {} /\ result = NoResult

SeqsUpTo(S, n) == UNION { [1..k -> S] : k \in 0..n }

Person(id, teamId) ==
  [id |-> id, firstName |-> <<11, 2>>, lastName |-> NoStr, email |-> NoStr,
   teamId |-> teamId, hasTeamIds |-> FALSE, teamIds |-> <<>>, role |-> NoStr]

\* people as the upstream may describe their teams: teamId only, teamIds
\* only, both, or neither
TeamFields ==
  { <<1, FALSE, <<>>>>, <<2, FALSE, <<>>>>, <<0, FALSE, <<>>>>,
    <<0, TRUE, <<2>>>>, <<0, TRUE, <<3, 1>>>>, <<1, TRUE, <<>>>>, <<1, TRUE, <<2>>>> }

PersonIn(id, tf) ==
  [id |-> id, firstName |-> <<11, 2>>, lastName |-> NoStr, email |-> NoStr,
   teamId |-> tf[1], hasTeamIds |-> tf[2], teamIds |-> tf[3], role |-> NoStr]

\* teams "Ab" and "Bc", and a team without a name
TeamList == <<[id |-> 1, name |-> <<11, 2>>], [id |-> 2, name |-> <<12, 3>>], [id |-> 3, name |-> NoStr]>>

\* no filter, "", "a", "B", "c", "i", " a " and " "
TeamNameFilters == {NoStr, <<>>, <<1>>, <<12>>, <<3>>, <<9>>, <<0, 1, 0>>, <<0>>}

\* roles "De" and "Ef", and a role without a name
RoleList == <<[id |-> 10, name |-> <<14, 5>>], [id |-> 11, name |-> <<15, 6>>], [id |-> 12, name |-> NoStr]>>

InitUtilization ==
  /\ Idle
  /\ ret = NoRet
  /\ \/ call \in
          { [fn |-> "computeUtilization",
             people |-> ps, actuals |-> acts, dateRangeDays |-> d,
             assignments |-> <<[personId |-> 1, roleId |-> 10]>>,
             teams |-> <<[id |-> 1, name |-> <<15, 4>>]>>,
             roles |-> <<[id |-> 10, name |-> <<14, 5>>]>>,
             teamNameFilter |-> NoStr] :
              ps \in SeqsUpTo({ Person(i, 1) : i \in {1, 2} }, MaxPeople),
              acts \in SeqsUpTo({ [personId |-> i, billableMinutes |-> b, nonbillableMinutes |-> 600] :
                                    i \in {1, 2}, b \in {AbsentNum, 7, 7200} }, MaxActuals),
              d \in {AbsentNum, 0, 1, 3, 20} }
     \/ call \in
          { [fn |-> "computeUtilization",
             people |-> [i \in DOMAIN tfs |-> PersonIn(i, tfs[i])],
             actuals |-> <<[personId |-> 1, billableMinutes |-> 4800, nonbillableMinutes |-> 600]>>,
             dateRangeDays |-> 20,
             assignments |-> <<[personId |-> 1, roleId |-> 10]>>,
             teams |-> TeamList,
             roles |-> <<[id |-> 10, name |-> <<14, 5>>]>>,
             teamNameFilter |-> f] :
              tfs \in SeqsUpTo(TeamFields, MaxPeople), f \in TeamNameFilters }
     \/ call \in
          { [fn |-> "computeUtilization",
             people |-> <<[Person(1, 1) EXCEPT !.role = pr]>>,
             actuals |-> <<>>, dateRangeDays |-> 20,
             assignments |-> as,
             teams |-> <<[id |-> 1, name |-> <<15, 4>>]>>,
             roles |-> RoleList, teamNameFilter |-> NoStr] :
              pr \in {NoStr, <<6>>},
              as \in SeqsUpTo({ [personId |-> i, roleId |-> r, startDate |-> d] :
                                  i \in {1, 2}, r \in {0, 10, 11, 12, 77},
                                  d \in {20458, 20465} }, MaxAssignments) }

CallComputeUtilization ==
  /\ call.fn = "computeUtilization" /\ ret = NoRet
  /\ ret' = [fn |-> call.fn, value |-> ComputeUtilization(call)]
  /\ UNCHANGED <<env, fetch, failures, join, firstFail, handlerVars, call>>

NextUtilization == CallComputeUtilization

SpecUtilization == InitUtilization /\ [][NextUtilization]_vars

----------------------------------------------------------------------------
(* get_project_overview: the status filter between fetch and aggregation *)

Flags == {"true", "false", "undefined"}

\* variant: no status means no filter
StatusFilterDefaultAll(status) == IF status = "omitted" THEN "all" ELSE status

\* const statusFilter = status ?? "active"
StatusFilter(status) == IF status = "omitted" THEN "active" ELSE status

\* const includeArchived = statusFilter === "archived" || statusFilter === "all"
IncludeArchived(statusFilter) == statusFilter = "archived" \/ statusFilter = "all"

\* let projects = allProjects; if (statusFilter === "active") ... filter
ProjectsFor(statusFilter, allProjects) ==
  CASE statusFilter = "active" -> SelectSeq(allProjects, LAMBDA p : p.isConfirmed = "true")
    [] statusFilter = "tentative" -> SelectSeq(allProjects, LAMBDA p : p.isConfirmed # "true")
    [] statusFilter = "archived" -> SelectSeq(allProjects, LAMBDA p : p.isArchived = "true")
    [] OTHER -> allProjects

ProjectLists ==
  { [i \in DOMAIN ks |-> [id |-> 200 + i, isConfirmed |-> ks[i][1], isArchived |-> ks[i][2]]] :
      ks \in SeqsUpTo(Flags \X Flags, MaxProjects) }

InitOverview ==
  /\ Idle
  /\ call \in { [fn |-> "get_project_overview", status |-> st] :
                  st \in {"omitted", "active", "tentative", "archived", "all"} }
  /\ ret = NoRet

\* the handler asks the upstream for the projects, which answers
OverviewFetch ==
  /\ call.fn = "get_project_overview" /\ ret = NoRet
  /\ \E all \in ProjectLists :
       ret' = [fn |-> "fetchProjects",
               includeArchived |-> IncludeArchived(StatusFilter(call.status)),
               allProjects |-> all]
  /\ UNCHANGED <<env, fetch, failures, join, firstFail, handlerVars, call>>

\* the handler filters by status and calls enrichProjectOverview
OverviewAggregate ==
  /\ ret.fn = "fetchProjects"
  /\ ret' = [fn |-> "enrichProjectOverview",
             includeArchived |-> ret.includeArchived,
             allProjects |-> ret.allProjects,
             projects |-> ProjectsFor(StatusFilter(call.status), ret.allProjects)]
  /\ UNCHANGED <<env, fetch, failures, join, firstFail, handlerVars, call>>

NextOverview == OverviewFetch \/ OverviewAggregate

SpecOverview == InitOverview /\ [][NextOverview]_vars

----------------------------------------------------------------------------
(* Dates.  A date string "YYYY-MM-DD" is the number of its day since        *)
(* 1970-01-01 (a Thursday); a missing, null or empty date is NoDate.  An    *)
(* instant (a Date) is a number of hours since the epoch.  The time zone of *)
(* the process is a fixed offset in hours from UTC.                         *)

NoDate == 0 - 1
NullNum == 0 - 2

\* new Date("YYYY-MM-DD"): midnight UTC of that day
NewDate(date) == date * 24

\* d.getDay(): the day of the week in local time, 0 is Sunday and 6 Saturday
GetDay(instant, tz) == (((instant + tz) \div 24) + 4) % 7

\* d.setDate(d.getDate() + n): n local days later, at the same local time
AddDays(instant, n) == instant + n * 24

RECURSIVE CountWorkingDays(_, _, _)
\* the loop of workingDaysBetween from instant d
CountWorkingDays(d, end, tz) ==
  IF d <= end
    THEN (IF GetDay(d, tz) # 0 /\ GetDay(d, tz) # 6 THEN 1 ELSE 0)
           + CountWorkingDays(AddDays(d, 1), end, tz)
    ELSE 0

\* workingDaysBetween(startDate, endDate) in a process of time zone tz
WorkingDaysBetween(startDate, endDate, tz) ==
  IF startDate = NoDate \/ endDate = NoDate THEN 0
  ELSE CountWorkingDays(NewDate(startDate), NewDate(endDate), tz)

----------------------------------------------------------------------------
(* enrichProjectOverview.  A pricing code is a number, or 100 + k for the   *)
(* strings "tm" (100), "fp" (101) and "nb" (102); AbsentNum is no code.     *)
(* The labels are <<110>> "Time & Materials", <<111>> "Fixed Price" and     *)
(* <<112>> "Non-Billable".                                                  *)

\* variant: the table is keyed by "tm", "fp" and "nb" as well
PricingModelsByName(code) ==
  CASE code = 0 \/ code = 100 -> <<110>>
    [] code = 1 \/ code = 101 -> <<111>>
    [] code = 2 \/ code = 102 -> <<112>>
    [] OTHER -> NullStr

\* PRICING_MODELS[code] || null
PRICING_MODELS(code) ==
  CASE code = 0 -> <<110>>
    [] code = 1 -> <<111>>
    [] code = 2 -> <<112>>
    [] OTHER -> NullStr

RECURSIVE ActualsByProject(_, _)
\* actualsByProject.get(pid) || 0 after the loop over the actuals
ActualsByProject(actuals, pid) ==
  IF actuals = <<>> THEN 0
  ELSE LET a == actuals[Len(actuals)]
           rest == ActualsByProject(SubSeq(actuals, 1, Len(actuals) - 1), pid)
       IN IF a.projectId = pid
            THEN rest + OrZero(a.billableMinutes) + OrZero(a.nonbillableMinutes)
            ELSE rest

\* assignmentsByProject.get(p.id) || []
AssignmentsByProject(assignments, pid) == SelectSeq(assignments, LAMBDA a : a.projectId = pid)

RECURSIVE BudgetAnyDates(_, _)
\* variant: an assignment without a start or an end date counts one day
BudgetAnyDates(projAssignments, tz) ==
  IF projAssignments = <<>> THEN 0
  ELSE LET a == projAssignments[Len(projAssignments)]
           days == IF a.startDate = NoDate \/ a.endDate = NoDate THEN 1
                   ELSE WorkingDaysBetween(a.startDate, a.endDate, tz)
       IN BudgetAnyDates(SubSeq(projAssignments, 1, Len(projAssignments) - 1), tz)
            + OrZero(a.minutesPerDay) * days

RECURSIVE BudgetMinutes(_, _)
\* projAssignments.reduce((sum, a) => sum + (a.minutesPerDay || 0) * days, 0)
BudgetMinutes(projAssignments, tz) ==
  IF projAssignments = <<>> THEN 0
  ELSE LET a == projAssignments[Len(projAssignments)]
       IN BudgetMinutes(SubSeq(projAssignments, 1, Len(projAssignments) - 1), tz)
            + OrZero(a.minutesPerDay) * WorkingDaysBetween(a.startDate, a.endDate, tz)

RECURSIVE UniquePersonIds(_)
\* [...new Set(projAssignments.map((a) => a.personId))]
UniquePersonIds(projAssignments) ==
  IF projAssignments = <<>> THEN <<>>
  ELSE LET before == UniquePersonIds(SubSeq(projAssignments, 1, Len(projAssignments) - 1))
           pid == projAssignments[Len(projAssignments)].personId
       IN IF \E i \in 1..Len(before) : before[i] = pid THEN before ELSE Append(before, pid)

\* one element of assignedPeople
AssignedPerson(pid, projAssignments, people, roles) ==
  LET person == MapGet(people, pid)
      k == CHOOSE i \in 1..Len(projAssignments) :
             projAssignments[i].personId = pid
               /\ \A j \in 1..(i - 1) : projAssignments[j].personId # pid
      roleId == projAssignments[k].roleId
      role == IF roleId # 0 THEN MapGet(roles, roleId) ELSE NoRec
  IN [id |-> pid,
      name |-> IF person # NoRec THEN PersonName(person) ELSE <<100, pid>>,
      role |-> NameOrNull(role)]

\* variant: a project without budget reports 0 percent
BudgetVsActualZero(actualMinutes, budgetMinutes) ==
  IF budgetMinutes > 0 THEN Round(actualMinutes, budgetMinutes) ELSE 0

\* budgetMinutes > 0 ? round((actualMinutes / budgetMinutes) * 100) : null
BudgetVsActual(actualMinutes, budgetMinutes) ==
  IF budgetMinutes > 0 THEN Round(actualMinutes, budgetMinutes) ELSE NullNum

\* one row of the result of enrichProjectOverview
ProjectRow(p, opts) ==
  LET projAssignments == AssignmentsByProject(opts.assignments, p.id)
      actualMinutes == ActualsByProject(opts.actuals, p.id)
      budgetMinutes == BudgetMinutes(projAssignments, opts.tz)
      ids == UniquePersonIds(projAssignments)
      team == IF p.teamId # 0 THEN MapGet(opts.teams, p.teamId) ELSE NoRec
  IN [id |-> p.id,
      name |-> p.name,
      client |-> NameOrNull(MapGet(opts.clients, p.clientId)),
      team |-> NameOrNull(team),
      startDate |-> IF p.startDate # NoDate THEN p.startDate ELSE NullNum,
      endDate |-> IF p.endDate # NoDate THEN p.endDate ELSE NullNum,
      isConfirmed |-> p.isConfirmed = "true",
      isTentative |-> p.isTentative = "true",
      pricingModel |-> PRICING_MODELS(p.pricingModel),
      assignmentCount |-> Len(projAssignments),
      assignedPeople |-> [i \in 1..Len(ids) |->
                            AssignedPerson(ids[i], projAssignments, opts.people, opts.roles)],
      budgetMinutes |-> budgetMinutes,
      actualMinutes |-> actualMinutes,
      budgetVsActualPercent |-> BudgetVsActual(actualMinutes, budgetMinutes)]

EnrichProjectOverview(opts) ==
  [totalProjects |-> Len(opts.projects),
   projects |-> [i \in 1..Len(opts.projects) |-> ProjectRow(opts.projects[i], opts)]]

----------------------------------------------------------------------------
(* enrichProjectOverview and workingDaysBetween applied to bounded inputs *)

\* New York in winter, UTC, and Berlin in summer
TimeZones == {0 - 5, 0, 2}

\* the day number of the d-th of January 2026; the 1st is a Thursday
Jan2026(d) == 20453 + d

\* Thursday 2026-01-01 to Saturday 2026-01-10
Days == Jan2026(1)..Jan2026(10)
Fri == Jan2026(2)
Sun == Jan2026(4)
Mon == Jan2026(5)
NextFri == Jan2026(9)

\* the pricing codes: missing, 0..3, "tm", "fp", "nb"
PricingCodes == {AbsentNum, 0, 1, 2, 3, 100, 101, 102}

Project(id, pricingModel) ==
  [id |-> id, name |-> <<16, id>>, clientId |-> 50, teamId |-> 1,
   startDate |-> Fri, endDate |-> NoDate,
   isConfirmed |-> "true", isTentative |-> "undefined", pricingModel |-> pricingModel]

\* minutesPerDay, startDate, endDate of an assignment
AssignmentShapes ==
  { <<480, Mon, NextFri>>, <<240, Fri, Sun>>, <<480, NoDate, NextFri>>,
    <<480, Mon, NoDate>>, <<AbsentNum, Mon, NextFri>> }

AssignmentKinds ==
  { [personId |-> 1, projectId |-> pid, roleId |-> 10,
     minutesPerDay |-> sh[1], startDate |-> sh[2], endDate |-> sh[3]] :
      pid \in {200, 201}, sh \in AssignmentShapes }

ActualKinds ==
  { [personId |-> 1, projectId |-> 200, billableMinutes |-> 600, nonbillableMinutes |-> 100],
    [personId |-> 2, projectId |-> 200, billableMinutes |-> AbsentNum, nonbillableMinutes |-> 50],
    [personId |-> 1, projectId |-> 201, billableMinutes |-> 7, nonbillableMinutes |-> AbsentNum] }

EnrichCall(projects, assignments, actuals, tz) ==
  [fn |-> "enrichProjectOverview", tz |-> tz,
   projects |-> projects, assignments |-> assignments, actuals |-> actuals,
   clients |-> <<[id |-> 50, name |-> <<13, 4>>]>>,
   teams |-> <<[id |-> 1, name |-> <<15, 4>>]>>,
   people |-> <<Person(1, 1)>>,
   roles |-> <<[id |-> 10, name |-> <<14, 5>>]>>]

InitProjects ==
  /\ Idle
  /\ ret = NoRet
  /\ \/ call \in { [fn |-> "workingDaysBetween", tz |-> tz, startDate |-> sd, endDate |-> ed] :
                      tz \in TimeZones, sd \in Days \cup {NoDate}, ed \in Days \cup {NoDate} }
     \/ call \in { EnrichCall(<<Project(200, 0), Project(201, 1)>>, as, acts, tz) :
                      as \in SeqsUpTo(AssignmentKinds, MaxAssignments),
                      acts \in SeqsUpTo(ActualKinds, MaxActuals),
                      tz \in TimeZones }
     \/ call \in { EnrichCall([i \in DOMAIN cs |-> Project(199 + i, cs[i])], <<>>, <<>>, 0) :
                      cs \in SeqsUpTo(PricingCodes, MaxProjects) }

CallWorkingDaysBetween ==
  /\ call.fn = "workingDaysBetween" /\ ret = NoRet
  /\ ret' = [fn |-> call.fn, value |-> WorkingDaysBetween(call.startDate, call.endDate, call.tz)]
  /\ UNCHANGED <<env, fetch, failures, join, firstFail, handlerVars, call>>

CallEnrichProjectOverview ==
  /\ call.fn = "enrichProjectOverview" /\ ret = NoRet
  /\ ret' = [fn |-> call.fn, value |-> EnrichProjectOverview(call)]
  /\ UNCHANGED <<env, fetch, failures, join, firstFail, handlerVars, call>>

NextProjects == CallWorkingDaysBetween \/ CallEnrichProjectOverview

SpecProjects == InitProjects /\ [][NextProjects]_vars

----------------------------------------------------------------------------
(* computeCapacityForecast.  `now` is the instant of the call; the name     *)
(* <<102, id>> is `Project ${id}` and <<103>> is "Leave".                   *)

\* variant: an assignment ending at the instant of the call is over
StillActiveAfterNow(a, now) == a.endDate = NoDate \/ NewDate(a.endDate) > now

\* !a.endDate || new Date(a.endDate) >= now
StillActive(a, now) == a.endDate = NoDate \/ NewDate(a.endDate) >= now

\* a.endDate && new Date(a.endDate) <= forecastEnd
EndsBy(a, forecastEnd) == a.endDate # NoDate /\ NewDate(a.endDate) <= forecastEnd

\* the mapped and filtered assignments of person p
PersonAssignments(p, assignments, projects, now) ==
  LET own == SelectSeq(assignments, LAMBDA a : a.personId = p.id)
      mapped == [i \in 1..Len(own) |->
                   [projectName |->
                      IF NameOrNull(MapGet(projects, own[i].projectId)) # NullStr
                        THEN MapGet(projects, own[i].projectId).name
                        ELSE <<102, own[i].projectId>>,
                    startDate |-> own[i].startDate,
                    endDate |-> own[i].endDate,
                    minutesPerDay |-> own[i].minutesPerDay]]
  IN SelectSeq(mapped, LAMBDA a : StillActive(a, now))

\* variant: the end date of the first ending assignment
LatestEndFirst(endingSoon) == endingSoon[1].endDate

RECURSIVE LatestEnd(_)
\* endingSoon.reduce((latest, a) => (a.endDate > latest ? a.endDate : latest), endingSoon[0].endDate)
LatestEnd(endingSoon) ==
  IF Len(endingSoon) = 1 THEN endingSoon[1].endDate
  ELSE LET latest == LatestEnd(SubSeq(endingSoon, 1, Len(endingSoon) - 1))
           a == endingSoon[Len(endingSoon)]
       IN IF a.endDate > latest THEN a.endDate ELSE latest

\* the leave of person p that has not ended
PersonLeave(p, leave, now) ==
  LET own == SelectSeq(leave, LAMBDA l : l.personId = p.id)
      kept == SelectSeq(own, LAMBDA l : l.endDate = NoDate \/ NewDate(l.endDate) >= now)
  IN [i \in 1..Len(kept) |->
        [startDate |-> kept[i].startDate, endDate |-> kept[i].endDate,
         type |-> IF StrTruthy(kept[i].leaveType) THEN kept[i].leaveType
                  ELSE IF StrTruthy(kept[i].type) THEN kept[i].type ELSE <<103>>]]

\* one row of forecast
ForecastRow(p, opts, now, forecastEnd) ==
  LET teamId == IF p.teamId # 0 THEN p.teamId
                ELSE IF p.hasTeamIds /\ p.teamIds # <<>> THEN p.teamIds[1] ELSE 0
      team == IF teamId # 0 THEN MapGet(opts.teams, teamId) ELSE NoRec
      personAssignments == PersonAssignments(p, opts.assignments, opts.projects, now)
      endingSoon == SelectSeq(personAssignments, LAMBDA a : EndsBy(a, forecastEnd))
  IN [name |-> PersonName(p),
      id |-> p.id,
      team |-> NameOrNull(team),
      activeAssignments |-> Len(personAssignments),
      endingSoon |-> endingSoon,
      upcomingLeave |-> PersonLeave(p, opts.leave, now),
      fullyAvailableAfter |-> IF Len(endingSoon) > 0 THEN LatestEnd(endingSoon) ELSE NullNum]

\* variant: an assignment that has not started by the start of the week
\* does not count
OverlapsFromStart(a, weekStart, weekEnd) ==
  /\ (a.startDate = NoDate \/ NewDate(a.startDate) <= weekStart)
  /\ (a.endDate = NoDate \/ NewDate(a.endDate) >= weekStart)

\* (!aStart || aStart <= weekEnd) && (!aEnd || aEnd >= weekStart)
Overlaps(a, weekStart, weekEnd) ==
  /\ (a.startDate = NoDate \/ NewDate(a.startDate) <= weekEnd)
  /\ (a.endDate = NoDate \/ NewDate(a.endDate) >= weekStart)

\* the bucket pushed by iteration w of the loop
WeeklyBucket(w, forecast, opts, now) ==
  LET weekStart == AddDays(now, w * 7)
      weekEnd == AddDays(weekStart, 7)
      assigned == { i \in 1..Len(forecast) :
                      \E k \in 1..Len(opts.assignments) :
                        /\ opts.assignments[k].personId = forecast[i].id
                        /\ Overlaps(opts.assignments[k], weekStart, weekEnd) }
      assignedCount == Cardinality(assigned)
  IN [weekStart |-> weekStart \div 24,
      utilization |-> IF Len(opts.people) > 0 THEN Round(assignedCount, Len(opts.people)) ELSE 0,
      availableCount |-> Len(opts.people) - assignedCount]

\* computeCapacityForecast called at the instant now
ComputeCapacityForecast(opts, now) ==
  LET forecastEnd == AddDays(now, opts.weeksAhead * 7)
      forecast == [i \in 1..Len(opts.people) |->
                     ForecastRow(opts.people[i], opts, now, forecastEnd)]
  IN [forecastWeeks |-> opts.weeksAhead,
      totalPeople |-> Len(forecast),
      currentlyUnassigned |->
        Cardinality({ i \in 1..Len(forecast) : forecast[i].activeAssignments = 0 }),
      withEndingSoonAssignments |->
        Cardinality({ i \in 1..Len(forecast) : Len(forecast[i].endingSoon) > 0 }),
      weeklyBuckets |-> [k \in 1..opts.weeksAhead |-> WeeklyBucket(k - 1, forecast, opts, now)],
      forecast |-> forecast]

----------------------------------------------------------------------------
(* computeCapacityForecast applied to bounded inputs *)

\* startDate and endDate of an assignment, around Monday 2026-01-05:
\* open, ended, ending that Monday, ending within a week, ending a week
\* later to the day, starting a week later, starting and ending later
ForecastShapes ==
  { <<NoDate, NoDate>>, <<Fri, Sun>>, <<Fri, Mon>>, <<NoDate, NextFri>>,
    <<Fri, Jan2026(12)>>, <<Jan2026(12), NoDate>>, <<Jan2026(13), Jan2026(20)>> }

ForecastAssignments ==
  { [personId |-> pid, projectId |-> 200, roleId |-> 10, minutesPerDay |-> 480,
     startDate |-> sh[1], endDate |-> sh[2]] : pid \in {1, 2}, sh \in ForecastShapes }

\* Monday 2026-01-05 at 00:00 UTC and at 15:00 UTC
Nows == {NewDate(Mon), NewDate(Mon) + 15}

InitForecast ==
  /\ Idle
  /\ ret = NoRet
  /\ call \in
       { [fn |-> "computeCapacityForecast", now |-> now,
          people |-> [i \in 1..n |-> Person(i, 1)],
          assignments |-> as,
          projects |-> <<Project(200, 0)>>,
          leave |-> <<[personId |-> 1, startDate |-> Fri, endDate |-> NoDate,
                       leaveType |-> NoStr, type |-> <<8>>]>>,
          teams |-> <<[id |-> 1, name |-> <<15, 4>>]>>,
          weeksAhead |-> w] :
           now \in Nows, n \in 0..MaxPeople,
           as \in SeqsUpTo(ForecastAssignments, MaxAssignments),
           w \in 0..MaxWeeks }

CallComputeCapacityForecast ==
  /\ call.fn = "computeCapacityForecast" /\ ret = NoRet
  /\ ret' = [fn |-> call.fn, value |-> ComputeCapacityForecast(call, call.now)]
  /\ UNCHANGED <<env, fetch, failures, join, firstFail, handlerVars, call>>

NextForecast == CallComputeCapacityForecast

SpecForecast == InitForecast /\ [][NextForecast]_vars

----------------------------------------------------------------------------
(* search_resources: the filters and projections of the handler, on the     *)
(* collections the fetchers return                                          *)

\* `${p.firstName || ""} ${p.lastName || ""}`
FirstLast(p) ==
  (IF StrTruthy(p.firstName) THEN p.firstName ELSE <<>>) \o <<0>>
    \o (IF StrTruthy(p.lastName) THEN p.lastName ELSE <<>>)

\* x?.toLowerCase().includes(q)
OptIncludes(x, q) == IsStr(x) /\ Includes(ToLowerCase(x), q)

\* const q = query.trim().toLowerCase()
SearchQuery(query) == ToLowerCase(Trim(query))

\* variant: people are matched on their name only
MatchesPersonByName(p, q) == Includes(ToLowerCase(FirstLast(p)), q)

\* name.includes(q) || p.email?.toLowerCase().includes(q)
MatchesPerson(p, q) == Includes(ToLowerCase(FirstLast(p)), q) \/ OptIncludes(p.email, q)

\* the filtered and projected list stored under the key of a resource type
SearchList(kind, fetched, q) ==
  CASE kind = "people" ->
         LET kept == SelectSeq(fetched, LAMBDA p : MatchesPerson(p, q))
         IN [i \in 1..Len(kept) |->
               [id |-> kept[i].id, name |-> Trim(FirstLast(kept[i])), email |-> kept[i].email]]
    [] kind = "projects" ->
         LET kept == SelectSeq(fetched, LAMBDA p : OptIncludes(p.name, q))
         IN [i \in 1..Len(kept) |->
               [id |-> kept[i].id, name |-> kept[i].name,
                startDate |-> kept[i].startDate, endDate |-> kept[i].endDate]]
    [] OTHER ->
         LET kept == SelectSeq(fetched, LAMBDA c : OptIncludes(c.name, q))
         IN [i \in 1..Len(kept) |-> [id |-> kept[i].id, name |-> kept[i].name]]

\* the queries: "", " ", "a", "A", " a ", "b c" and "i"
Queries == {<<>>, <<0>>, <<1>>, <<11>>, <<0, 1, 0>>, <<2, 0, 3>>, <<9>>}

\* "Ab Cd" with e-mail "e", "Ba" without first name, "d" with e-mail "Ac",
\* and a person without name and e-mail
SearchPeopleKinds ==
  { <<<<11, 2>>, <<13, 4>>, <<5>>>>, <<NoStr, <<12, 1>>, NoStr>>,
    <<<<4>>, NoStr, <<11, 3>>>>, <<NoStr, NullStr, NullStr>> }

\* projects "ab c", "D" and one without a name
SearchProjectNames == {<<1, 2, 0, 3>>, <<14>>, NoStr}

\* the collections a fetcher may return
Fetched(kind) ==
  CASE kind = "people" ->
         { [i \in DOMAIN ks |->
              [id |-> i, firstName |-> ks[i][1], lastName |-> ks[i][2], email |-> ks[i][3],
               teamId |-> 1, hasTeamIds |-> FALSE, teamIds |-> <<>>, role |-> NoStr]] :
             ks \in SeqsUpTo(SearchPeopleKinds, MaxPeople) }
    [] kind = "projects" ->
         { [i \in DOMAIN ns |->
              [id |-> 199 + i, name |-> ns[i], startDate |-> Fri, endDate |-> NoDate]] :
             ns \in SeqsUpTo(SearchProjectNames, MaxProjects) }
    [] OTHER ->
         { <<>>, <<[id |-> 50, name |-> <<11, 3>>]>>,
           <<[id |-> 50, name |-> <<2>>], [id |-> 51, name |-> NullStr],
             [id |-> 52, name |-> <<3, 0, 1>>]>> }

AfterKind(kind) ==
  CASE kind = "people" -> "projects" [] kind = "projects" -> "clients" [] OTHER -> "return"

InitSearch ==
  /\ Idle
  /\ call \in { [fn |-> "search_resources", query |-> qy, resourceType |-> rt] :
                  qy \in Queries, rt \in {"omitted", "people", "projects", "clients", "all"} }
  /\ ret = [fn |-> "search", next |-> "people", fetched |-> <<>>, results |-> <<>>]

\* if (type === "all" || type === kind) { fetch; results[kind] = filter + map }
SearchStep(kind) ==
  /\ call.fn = "search_resources" /\ ret.fn = "search" /\ ret.next = kind
  /\ LET type == ResourceType(call.resourceType)
         q == SearchQuery(call.query)
     IN IF type = "all" \/ type = kind
          THEN \E fetched \in Fetched(kind) :
                 ret' = [ret EXCEPT !.next = AfterKind(kind),
                                    !.fetched = fetched,
                                    !.results = [k \in DOMAIN ret.results \cup {kind} |->
                                                   IF k = kind THEN SearchList(kind, fetched, q)
                                                   ELSE ret.results[k]]]
          ELSE ret' = [ret EXCEPT !.next = AfterKind(kind), !.fetched = <<>>]
  /\ UNCHANGED <<env, fetch, failures, join, firstFail, handlerVars, call>>

SearchPeople == SearchStep("people")
SearchProjects == SearchStep("projects")
SearchClients == SearchStep("clients")

\* return { content: [{ type: "text", text: JSON.stringify(results) }] }
SearchReturn ==
  /\ call.fn = "search_resources" /\ ret.fn = "search" /\ ret.next = "return"
  /\ ret' = [ret EXCEPT !.next = "done", !.fetched = <<>>]
  /\ result' = [isError |-> FALSE, text |-> ret.results]
  /\ UNCHANGED <<env, fetch, failures, join, firstFail, hpc, thrown, computed, call>>

NextSearch == SearchPeople \/ SearchProjects \/ SearchClients \/ SearchReturn

SpecSearch == InitSearch /\ [][NextSearch]_vars

----------------------------------------------------------------------------
(* enrichPersonDetails.  The name <<104, id>> is `Skill ${id}`.             *)

\* projectMap.get(id)?.name || `Project ${id}`
ProjectNameOf(projects, id) ==
  IF NameOrNull(MapGet(projects, id)) # NullStr THEN MapGet(projects, id).name
  ELSE <<102, id>>

\* skillMap.get(id)?.name || `Skill ${id}`
SkillNameOf(skills, id) ==
  IF NameOrNull(MapGet(skills, id)) # NullStr THEN MapGet(skills, id).name
  ELSE <<104, id>>

\* a.roleId ? (roleMap.get(a.roleId)?.name || null) : null
AssignmentRole(roles, roleId) ==
  IF roleId # 0 THEN NameOrNull(MapGet(roles, roleId)) ELSE NullStr

EnrichPersonDetails(opts) ==
  LET person == opts.person
      teamId == IF person.teamId # 0 THEN person.teamId
                ELSE IF person.hasTeamIds /\ person.teamIds # <<>> THEN person.teamIds[1] ELSE 0
      team == IF teamId # 0 THEN MapGet(opts.teamMap, teamId) ELSE NoRec
  IN [id |-> person.id,
      name |-> PersonName(person),
      email |-> IF StrTruthy(person.email) THEN person.email ELSE NullStr,
      team |-> NameOrNull(team),
      role |-> IF StrTruthy(person.role) THEN person.role ELSE NullStr,
      skills |-> [i \in 1..Len(opts.personSkills) |->
                    [name |-> SkillNameOf(opts.skillMap, opts.personSkills[i].skillId),
                     level |-> opts.personSkills[i].level]],
      assignments |-> [i \in 1..Len(opts.assignments) |->
                         LET a == opts.assignments[i]
                         IN [projectName |-> ProjectNameOf(opts.projects, a.projectId),
                             projectId |-> a.projectId,
                             role |-> AssignmentRole(opts.roleMap, a.roleId),
                             startDate |-> a.startDate,
                             endDate |-> a.endDate,
                             minutesPerDay |-> a.minutesPerDay]]]

----------------------------------------------------------------------------
(* The four aggregation functions applied to records whose foreign keys     *)
(* reference a supplied record, a record that was not supplied, or nothing  *)

KnownTeams == <<[id |-> 1, name |-> <<15, 4>>]>>
KnownRoles == <<[id |-> 10, name |-> <<14, 5>>]>>
KnownClients == <<[id |-> 50, name |-> <<13, 4>>]>>
KnownSkills == <<[id |-> 100, name |-> <<17, 8>>]>>

TeamRefs == {0, 1, 7}
RoleRefs == {0, 10, 77}
ClientRefs == {0, 50, 99}
ProjectRefs == {200, 999}
SkillRefs == {100, 999}
PersonRefs == {1, 9}

DatedAssignment(personId, projectId, roleId) ==
  [personId |-> personId, projectId |-> projectId, roleId |-> roleId,
   minutesPerDay |-> 480, startDate |-> Mon, endDate |-> NextFri]

InitLookups ==
  /\ Idle
  /\ ret = NoRet
  /\ \/ call \in
          { [fn |-> "computeUtilization",
             people |-> <<[Person(1, t) EXCEPT !.role = pr]>>,
             actuals |-> <<>>, dateRangeDays |-> 20,
             assignments |-> <<[personId |-> 1, roleId |-> r]>>,
             teams |-> KnownTeams, roles |-> KnownRoles, teamNameFilter |-> NoStr] :
              t \in TeamRefs, r \in RoleRefs, pr \in {NoStr, <<6>>} }
     \/ call \in
          { [EnrichCall(<<[Project(200, 0) EXCEPT !.clientId = c, !.teamId = t]>>,
                        <<DatedAssignment(pid, 200, r)>>, <<>>, 0)
               EXCEPT !.clients = KnownClients] :
              c \in ClientRefs, t \in TeamRefs, pid \in PersonRefs, r \in RoleRefs }
     \/ call \in
          { [fn |-> "computeCapacityForecast", now |-> NewDate(Mon),
             people |-> <<Person(1, t)>>,
             assignments |-> <<DatedAssignment(1, pj, 10)>>,
             projects |-> <<Project(200, 0)>>, leave |-> <<>>,
             teams |-> KnownTeams, weeksAhead |-> 1] :
              t \in TeamRefs, pj \in ProjectRefs }
     \/ call \in
          { [fn |-> "enrichPersonDetails",
             person |-> Person(1, t),
             personSkills |-> <<[skillId |-> sk, level |-> 3]>>,
             assignments |-> <<DatedAssignment(1, pj, r)>>,
             projects |-> <<Project(200, 0)>>,
             skillMap |-> KnownSkills, roleMap |-> KnownRoles, teamMap |-> KnownTeams] :
              t \in TeamRefs, sk \in SkillRefs, pj \in ProjectRefs, r \in RoleRefs }

CallEnrichPersonDetails ==
  /\ call.fn = "enrichPersonDetails" /\ ret = NoRet
  /\ ret' = [fn |-> call.fn, value |-> EnrichPersonDetails(call)]
  /\ UNCHANGED <<env, fetch, failures, join, firstFail, handlerVars, call>>

NextLookups ==
  \/ CallComputeUtilization
  \/ CallEnrichProjectOverview
  \/ CallComputeCapacityForecast
  \/ CallEnrichPersonDetails

SpecLookups == InitLookups /\ [][NextLookups]_vars

----------------------------------------------------------------------------
(* HTTP mode of main(): the /mcp route, the session registry `transports`   *)
(* and the SIGINT handler.  The server's state is the record `call`:        *)
(* created[t] is the t-th StreamableHTTPServerTransport, whose session id   *)
(* (a fresh UUID) is t once it is initialized; a transport is "new" while   *)
(* the handler that created it is suspended before the transport has        *)
(* initialized its session; `ret` is the last routing decision.  A session  *)
(* id header is 0 when absent, the id of a session, an id that no session   *)
(* has, or "constructor", a key of Object.prototype.                        *)

MaxSessions == 2

NoExit == 0 - 1
ProtoKey == 0 - 1
ProtoObject == 0 - 1
UnknownSid == MaxSessions + 1

\* const transports: Record<string, StreamableHTTPServerTransport> = {}
\* its own keys, in insertion order
transports == call.transports

Registered(reg, sid) == \E i \in 1..Len(reg) : reg[i] = sid

\* transports[sessionId]: the transport of a registered id, a member of
\* Object.prototype for one of its keys, undefined (0) otherwise
Lookup(reg, sessionId) ==
  IF Registered(reg, sessionId) THEN sessionId
  ELSE IF sessionId = ProtoKey THEN ProtoObject
  ELSE 0

\* delete transports[sid]
Delete(reg, sid) == SelectSeq(reg, LAMBDA k : k # sid)

\* new StreamableHTTPServerTransport({...})
NewTransport == [st |-> "new", closeInvoked |-> FALSE]

\* the requests a client can send to /mcp; only a POST carries a body
Requests ==
  { r \in [method : {"POST", "GET", "DELETE"},
           sessionId : (0..MaxSessions) \cup {UnknownSid, ProtoKey},
           init : BOOLEAN] : r.init => r.method = "POST" }

\* isInitializeRequest(req.body)
IsInitializeRequest(r) == r.init

InitHttp ==
  /\ Idle
  /\ call = [fn |-> "main", transports |-> <<>>, created |-> <<>>,
             sigint |-> [pc |-> "none", keys |-> <<>>], exit |-> NoExit]
  /\ ret = NoRet

Running == call.fn = "main" /\ call.exit = NoExit

\* variant: onclose leaves the registry as it is
OnCloseKeeps(reg, t) == reg

\* transport.onclose: if (transport.sessionId) delete transports[transport.sessionId]
OnClose(reg, t) == Delete(reg, t)

\* onsessioninitialized: (sid) => { transports[sid] = transport; }
OnSessionInitialized(reg, sid) == IF Registered(reg, sid) THEN reg ELSE Append(reg, sid)

\* transport.close() on an open transport: it closes and calls onclose, or
\* it throws before or after it did
CloseOutcomes == {"closed", "threwBefore", "threwAfter"}

Close(c, t, outcome) ==
  IF c.created[t].st # "open" \/ outcome = "threwBefore"
    THEN [c EXCEPT !.created[t].closeInvoked = TRUE]
    ELSE [c EXCEPT !.created[t].closeInvoked = TRUE, !.created[t].st = "closed",
                   !.transports = OnClose(c.transports, t)]

\* transport.handleRequest(req, res, req.body) of an initialized transport:
\* a DELETE closes the session's transport, any other request is served
HandleRequest(c, t, r, outcome) ==
  IF r.method = "DELETE" THEN Close(c, t, outcome) ELSE c

\* the decision of the /mcp handler for request r
Route(reg, r) ==
  LET found == Lookup(reg, r.sessionId)
  IN IF r.sessionId # 0 /\ found # 0
       THEN IF found = ProtoObject THEN "threw" ELSE "handed"
     ELSE IF r.sessionId = 0 /\ r.method = "POST" /\ IsInitializeRequest(r)
       THEN "created"
     ELSE "400"

\* app.all("/mcp", ...): the handler up to its first suspension
Receive ==
  /\ Running
  /\ \E r \in Requests : \E o \in CloseOutcomes :
       LET found == Lookup(transports, r.sessionId)
           n == Len(call.created) + 1
       IN CASE Route(transports, r) = "handed" ->
                 \* transport = transports[sessionId]; transport.handleRequest(...)
                 /\ call' = HandleRequest(call, found, r, o)
                 /\ ret' = [fn |-> "route", req |-> r, outcome |-> "handed", transport |-> found]
            [] Route(transports, r) = "threw" ->
                 \* transport.handleRequest is not a function
                 /\ call' = call
                 /\ ret' = [fn |-> "route", req |-> r, outcome |-> "threw", transport |-> 0]
            [] Route(transports, r) = "created" ->
                 \* a new transport; await createServer().connect(transport)
                 /\ n <= MaxSessions
                 /\ call' = [call EXCEPT !.created = Append(@, NewTransport)]
                 /\ ret' = [fn |-> "route", req |-> r, outcome |-> "created", transport |-> n]
            [] OTHER ->
                 \* res.status(400).json({... "Bad Request: No valid session" ...})
                 /\ call' = call
                 /\ ret' = [fn |-> "route", req |-> r, outcome |-> "400", transport |-> 0]
  /\ UNCHANGED <<env, fetch, failures, join, firstFail, handlerVars>>

\* await createServer().connect(transport) returned and
\* transport.handleRequest(req, res, req.body) handles the initialize
\* request: the transport takes its session id and calls onsessioninitialized
Connected ==
  /\ Running
  /\ \E t \in 1..Len(call.created) :
       /\ call.created[t].st = "new"
       /\ call' = [call EXCEPT !.created[t].st = "open",
                               !.transports = OnSessionInitialized(call.transports, t)]
  /\ UNCHANGED <<env, fetch, failures, join, firstFail, handlerVars, ret>>

\* the keys of the loop not yet visited that are still in the registry
RemainingKeys(c, keys) == SelectSeq(keys, LAMBDA k : Registered(c.transports, k))

\* the loop body up to its await, or the end of the loop:
\* try { await transports[sid].close(); } catch {} ... process.exit(0)
LoopStep(c, keys, outcome) ==
  LET rest == RemainingKeys(c, keys)
  IN IF rest = <<>>
       THEN [c EXCEPT !.sigint = [pc |-> "done", keys |-> <<>>], !.exit = 0]
       ELSE Close([c EXCEPT !.sigint = [pc |-> "awaiting", keys |-> Tail(rest)]],
                  Head(rest), outcome)

\* process.on("SIGINT", ...): for (const sid in transports) takes the keys
\* the registry has when the loop starts
Sigint ==
  /\ Running /\ call.sigint.pc = "none"
  /\ \E o \in CloseOutcomes : call' = LoopStep(call, transports, o)
  /\ UNCHANGED <<env, fetch, failures, join, firstFail, handlerVars, ret>>

\* the awaited close settled (a rejection is swallowed by catch {}) and the
\* loop goes on
SigintResume ==
  /\ Running /\ call.sigint.pc = "awaiting"
  /\ \E o \in CloseOutcomes : call' = LoopStep(call, call.sigint.keys, o)
  /\ UNCHANGED <<env, fetch, failures, join, firstFail, handlerVars, ret>>

NextHttp == Receive \/ Connected \/ Sigint \/ SigintResume

SpecHttp == InitHttp /\ [][NextHttp]_vars

----------------------------------------------------------------------------
(* Properties of paginate and withRetry (SpecFetch) *)

L == fetch["list"]
Src == env.src["list"]

\* the index of the k-th page (0-based) reached by following the cursors
PageIndexAt(src, k) ==
  IF k < src.len THEN k ELSE src.tail + ((k - src.len) % (src.len - src.tail))

RECURSIVE ConcatWalk(_, _)
\* the values of the first n pages reached by following the cursors
ConcatWalk(src, n) ==
  IF n = 0 THEN <<>> ELSE ConcatWalk(src, n - 1) \o PageValues(src, PageIndexAt(src, n - 1))

\* the collection ends (a page without a usable cursor) within n pages
EndsWithin(src, n) == ~Truthy(src.tail) /\ src.len <= n

Is429or5xx(status) == status = 429 \/ status \in 500..599

\* C1: paginate requests the first page with no cursor and every later page
\* with the nextCursor of the page just received, never has two requests
\* open, and over a collection of at most 10 pages returns the values of all
\* pages in page order, stopping at the first page without a cursor.
C1_PaginateFollowsCursors ==
  /\ L.open <= 1
  /\ L.pc \in {"inflight", "backoff", "failed"}
       => L.reqCursor = (IF L.received = 0 THEN Undefined ELSE L.lastNext)
  /\ (L.pc = "ok" /\ EndsWithin(Src, 10))
       => /\ L.received = Src.len
          /\ L.all = ConcatWalk(Src, Src.len)

C1_Witness ==
  /\ L.pc = "ok" /\ EndsWithin(Src, 10) /\ Src.len = 3
  /\ Src.tail = EmptyString /\ Len(L.all) >= 3

\* C2: for every collection, also one whose cursors loop or never end,
\* paginate stops after at most 10 received pages and returns exactly the
\* values of the first 10 pages, even when the 10th page carries a cursor.
C2_PaginateCapped ==
  /\ L.received <= 10
  /\ L.received = 10 => L.pc = "ok"
  /\ (L.pc = "ok" /\ ~EndsWithin(Src, 10))
       => /\ L.received = 10
          /\ L.all = ConcatWalk(Src, 10)

C2_Witness ==
  /\ L.pc = "ok" /\ Truthy(Src.tail) /\ Src.len = 3
  /\ L.received = 10 /\ Truthy(L.lastNext)

\* C3: one withRetry call makes at most 4 attempts, every attempt after the
\* first follows an attempt that failed with 429 or 5xx, and the first
\* successful attempt ends the call with its value (two 503 then a success:
\* exactly 3 attempts).
C3_RetryAtMostFour ==
  /\ L.tries <= 4
  /\ L.tries <= Len(L.fails) + 1
  /\ \A i \in 1..Len(L.fails) : i < L.tries => Is429or5xx(ErrStatus(L.fails[i]))
  /\ L.pc = "ok" => L.tries = Len(L.fails) + 1
  /\ (L.pc = "ok" /\ Src.len = 1) => L.all = PageValues(Src, 0)

C3_Witness ==
  /\ L.pc = "ok" /\ L.fails = <<HttpErr(503), HttpErr(503)>> /\ L.tries = 3
  /\ L.all = PageValues(Src, 0)

\* C4: a failure that is not 429/5xx is raised after that attempt with no
\* further attempt, a retryable failure of the 4th attempt raises that
\* attempt's error, and a raised error makes the whole paginate call fail
\* for good: it never returns the pages fetched so far.
C4_Raised ==
  /\ \A i \in 1..Len(L.fails) :
        ~Is429or5xx(ErrStatus(L.fails[i]))
          => i = Len(L.fails) /\ L.tries = i /\ L.pc = "failed" /\ L.err = L.fails[i]
  /\ Len(L.fails) = 4 => L.pc = "failed" /\ L.err = L.fails[4]
  /\ L.pc = "failed" => Len(L.fails) >= 1 /\ L.err = L.fails[Len(L.fails)] /\ L.open = 0

C4_NeverSwallowed ==
  [](C4_Raised) /\ [][L.pc = "failed" => fetch'["list"].pc = "failed"]_vars

C4_Witness ==
  /\ L.pc = "failed" /\ L.received >= 1 /\ Len(L.all) >= 1
  /\ ErrStatus(L.err) = 404 /\ Len(L.fails) = 2

C4_WitnessExhausted ==
  L.pc = "failed" /\ Len(L.fails) = 4 /\ ErrStatus(L.err) = 503

----------------------------------------------------------------------------
(* Properties of the tool handlers (SpecTools) *)

Slots == DOMAIN fetch

AggregationFunctions ==
  {"computeUtilization", "enrichProjectOverview", "computeCapacityForecast", "enrichPersonDetails"}

ErrorText(tool, e) == <<"Error in", tool, Msg(e)>>

\* C5: every upstream request of a tool operation is retried on 429 / 5xx up
\* to the retry bound: a fetch gives up on a 429 / 5xx failure only after
\* its 4th attempt.
C5_EveryRequestRetried ==
  \A f \in Slots :
    (fetch[f].pc = "failed" /\ Is429or5xx(ErrStatus(fetch[f].err))) => fetch[f].tries = 4

\* C6: a handler ends only by returning a payload: the result payload when
\* nothing was raised, and for an error raised while fetching or computing
\* the payload isError with text "Error in <tool name>: <error message>".
C6_ErrorsBecomePayloads ==
  /\ hpc # "escaped"
  /\ hpc = "done" =>
       /\ thrown.name # "none" => result = [isError |-> TRUE, text |-> ErrorText(env.op, thrown)]
       /\ thrown.name = "none" => result = [isError |-> FALSE, text |-> <<"result", env.op>>]
       /\ join.st = "rejected" => thrown = join.err
       /\ (\E f \in Slots : fetch[f].pc = "failed") => result.isError

C6_Witness ==
  /\ hpc = "done" /\ env.op = "get_team_utilization"
  /\ result = [isError |-> TRUE,
               text |-> <<"Error in", "get_team_utilization", <<"Request failed with status code", 404>>>>]

C6_WitnessCompute ==
  /\ hpc = "done" /\ env.op = "get_capacity_forecast" /\ thrown = TypeErr
  /\ result.isError /\ computed = {"computeCapacityForecast"}

\* C7 as stated: in every tool operation all fetches are started before
\* the handler waits for any of them, and the aggregation / filter step
\* runs only after every fetch completed.
C7_AllFetchesConcurrent ==
  /\ hpc # "ready" => \A f \in Slots : fetch[f].pc # "idle"
  /\ computed # {} => \A f \in Slots : fetch[f].pc = "ok"

\* C7 amended: that holds for the four aggregating operations;
\* search_resources fetches its requested collections one at a time, each
\* started only after the previous one was fetched and filtered.
C7_FanOutExceptSearch ==
  /\ env.op # "search_resources" => C7_AllFetchesConcurrent
  /\ env.op = "search_resources" =>
       /\ Cardinality({f \in Slots : fetch[f].pc \in {"inflight", "backoff"}}) <= 1
       /\ \A t \in computed : fetch[t].pc = "ok"
       /\ \A i \in 2..Len(Requested(env.arg)) :
            fetch[Requested(env.arg)[i]].pc # "idle" => Requested(env.arg)[i - 1] \in computed

C7_Witness ==
  /\ env.op = "get_project_overview" /\ hpc = "all" /\ Cardinality(Slots) = 7
  /\ \A f \in Slots : fetch[f].pc = "inflight"

C7_WitnessSearch ==
  /\ env.op = "search_resources" /\ computed = {"people"}
  /\ fetch["projects"].pc = "inflight" /\ fetch["clients"].pc = "idle"

\* C8 as stated: whichever sibling fetch fails, the operation returns an
\* error payload carrying that failure's message and never calls the
\* aggregation function.
C8_CarriesThatFailure ==
  \A f \in Slots :
    (hpc = "done" /\ fetch[f].pc = "failed")
      => /\ result = [isError |-> TRUE, text |-> ErrorText(env.op, fetch[f].err)]
         /\ computed \cap AggregationFunctions = {}

\* C8 amended: the payload carries the message of the fetch that failed
\* first (of the failed fetch, when it is the only one).
C8_CarriesFirstFailure ==
  (hpc = "done" /\ firstFail # "none")
    => /\ result = [isError |-> TRUE, text |-> ErrorText(env.op, fetch[firstFail].err)]
       /\ computed \cap AggregationFunctions = {}

C8_Witness ==
  /\ hpc = "done" /\ env.op = "get_person_details" /\ firstFail = "person"
  /\ ErrStatus(fetch["person"].err) = 404
  /\ fetch["teams"].pc = "ok" /\ fetch["projects"].pc = "inflight"
  /\ result.isError

----------------------------------------------------------------------------
(* Properties of the status filter (SpecOverview) *)

Confirmed(p) == p.isConfirmed = "true"
Archived(p) == p.isArchived = "true"

\* C9: the projects handed to enrichProjectOverview are, in fetch order, the
\* confirmed ones for 'active' and for no status, the unconfirmed ones for
\* 'tentative', the archived ones for 'archived', all of them for 'all';
\* archived projects are requested only for 'archived' and 'all'.
C9_StatusFilter ==
  /\ ret.fn \in {"fetchProjects", "enrichProjectOverview"}
       => (ret.includeArchived <=> call.status \in {"archived", "all"})
  /\ ret.fn = "enrichProjectOverview" =>
       LET all == ret.allProjects
       IN /\ call.status \in {"active", "omitted"} => ret.projects = SelectSeq(all, Confirmed)
          /\ call.status = "tentative" => ret.projects = SelectSeq(all, LAMBDA p : ~Confirmed(p))
          /\ call.status = "archived" => ret.projects = SelectSeq(all, Archived)
          /\ call.status = "all" => ret.projects = all

C9_Witness ==
  /\ ret.fn = "enrichProjectOverview" /\ call.status = "omitted"
  /\ Len(ret.allProjects) = 2 /\ Len(ret.projects) = 1
  /\ ~ret.includeArchived

----------------------------------------------------------------------------
(* Properties of computeUtilization (SpecUtilization) *)

RECURSIVE BillableOver(_, _)
\* the billable minutes of the actuals with an index in I
BillableOver(actuals, I) ==
  IF I = {} THEN 0
  ELSE LET i == CHOOSE x \in I : TRUE
           m == actuals[i].billableMinutes
       IN (IF m = AbsentNum THEN 0 ELSE m) + BillableOver(actuals, I \ {i})

\* the billable minutes of all actuals of person pid
BillableOf(actuals, pid) ==
  BillableOver(actuals, { i \in 1..Len(actuals) : actuals[i].personId = pid })

\* u (in hundredths) is x = num / den * 100 rounded to two decimals
IsRounded(u, num, den) ==
  /\ 2 * den * u <= 2 * 10000 * num + den
  /\ 2 * den * u > 2 * 10000 * num - den

\* C10: with available = dateRangeDays x 480, every person row has
\* utilizationPercent = round(billable / available x 100, 2) if available > 0
\* and 0 if available = 0, billable being the sum of the billableMinutes of
\* all actuals of that person (7200 minutes over 20 days: 75).
C10_UtilizationPercent ==
  ret.fn = "computeUtilization" =>
    LET days == IF call.dateRangeDays = AbsentNum THEN 20 ELSE call.dateRangeDays
        available == days * 480
        rows == ret.value.people
    IN /\ ~StrTruthy(call.teamNameFilter) =>
            /\ Len(rows) = Len(call.people)
            /\ \A i \in 1..Len(rows) : rows[i].id = call.people[i].id
       /\ \A i \in 1..Len(rows) :
            LET billable == BillableOf(call.actuals, rows[i].id)
            IN /\ \E j \in 1..Len(call.people) : call.people[j].id = rows[i].id
               /\ rows[i].billableMinutes = billable
               /\ available > 0 => IsRounded(rows[i].utilizationPercent, billable, available)
               /\ available = 0 => rows[i].utilizationPercent = 0
               /\ (billable = 7200 /\ days = 20) => rows[i].utilizationPercent = 7500

C10_Witness ==
  /\ ret.fn = "computeUtilization" /\ call.dateRangeDays = 20
  /\ Len(call.actuals) = 2 /\ Len(ret.value.people) >= 1
  /\ ret.value.people[1].billableMinutes = 7200
  /\ ret.value.people[1].utilizationPercent = 7500

C10_WitnessZero ==
  /\ ret.fn = "computeUtilization" /\ call.dateRangeDays = 0
  /\ Len(ret.value.people) >= 1
  /\ ret.value.people[1].billableMinutes = 7200
  /\ ret.value.people[1].utilizationPercent = 0

\* the team has a name that contains the filter, case-insensitively
TeamMatches(teams, tid, filter) ==
  \E k \in 1..Len(teams) :
    /\ teams[k].id = tid /\ IsStr(teams[k].name)
    /\ Includes(ToLowerCase(teams[k].name), ToLowerCase(filter))

\* the person's teamId, or an element of the person's teamIds, is such a team
InMatchingTeam(p, teams, filter) ==
  \/ p.teamId # 0 /\ TeamMatches(teams, p.teamId, filter)
  \/ p.hasTeamIds /\ \E i \in 1..Len(p.teamIds) : TeamMatches(teams, p.teamIds[i], filter)

\* C11: given a team filter, the people of the result are exactly the input
\* people whose teamId, or any element of whose teamIds, is the id of a team
\* whose name contains the filter case-insensitively; a filter matching no
\* team yields zero people, a summary of 0 people and 0 average utilization.
C11_TeamFilter ==
  (ret.fn = "computeUtilization" /\ StrTruthy(call.teamNameFilter)) =>
    LET expected == SelectSeq(call.people,
                      LAMBDA p : InMatchingTeam(p, call.teams, call.teamNameFilter))
        rows == ret.value.people
    IN /\ Len(rows) = Len(expected)
       /\ \A i \in 1..Len(rows) : rows[i].id = expected[i].id
       /\ (\A k \in 1..Len(call.teams) :
              ~TeamMatches(call.teams, call.teams[k].id, call.teamNameFilter))
            => /\ rows = <<>>
               /\ ret.value.summary.totalPeople = 0
               /\ ret.value.summary.avgUtilizationPercent = 0

\* a person whose teamId is a matching team is dropped because the person
\* also carries a teamIds array
C11_ShadowedTeamId ==
  /\ ret.fn = "computeUtilization" /\ call.teamNameFilter = <<1>>
  /\ Len(call.people) = 1 /\ call.people[1].teamId = 1 /\ call.people[1].hasTeamIds
  /\ ret.value.people = <<>>

----------------------------------------------------------------------------
(* Properties of enrichProjectOverview and workingDaysBetween (SpecProjects) *)

RECURSIVE SumOfActuals(_, _)
\* billableMinutes + nonbillableMinutes summed over the actuals with an index in I
SumOfActuals(actuals, I) ==
  IF I = {} THEN 0
  ELSE LET i == CHOOSE x \in I : TRUE
           b == actuals[i].billableMinutes
           n == actuals[i].nonbillableMinutes
       IN (IF b = AbsentNum THEN 0 ELSE b) + (IF n = AbsentNum THEN 0 ELSE n)
            + SumOfActuals(actuals, I \ {i})

\* C12: in every project row budgetVsActualPercent is null (never 0) when
\* budgetMinutes is 0 and round(actualMinutes / budgetMinutes x 100, 2) when
\* budgetMinutes > 0, actualMinutes being the sum of billableMinutes +
\* nonbillableMinutes over the actuals with that project id.
C12_BudgetVsActual ==
  ret.fn = "enrichProjectOverview" =>
    \A i \in 1..Len(ret.value.projects) :
      LET row == ret.value.projects[i]
          actual == SumOfActuals(call.actuals,
                      { k \in 1..Len(call.actuals) : call.actuals[k].projectId = row.id })
      IN /\ row.id = call.projects[i].id
         /\ row.actualMinutes = actual
         /\ row.budgetMinutes >= 0
         /\ row.budgetMinutes = 0 => row.budgetVsActualPercent = NullNum
         /\ row.budgetMinutes > 0 =>
              /\ row.budgetVsActualPercent # NullNum
              /\ IsRounded(row.budgetVsActualPercent, actual, row.budgetMinutes)

\* 700 minutes against a budget of 2400: 29.17 percent, and a second project
\* with actual minutes but no budget
C12_Witness ==
  /\ ret.fn = "enrichProjectOverview" /\ Len(ret.value.projects) = 2
  /\ ret.value.projects[1].budgetMinutes = 2400
  /\ ret.value.projects[1].actualMinutes = 700
  /\ ret.value.projects[1].budgetVsActualPercent = 2917
  /\ ret.value.projects[2].budgetMinutes = 0
  /\ ret.value.projects[2].actualMinutes = 7
  /\ ret.value.projects[2].budgetVsActualPercent = NullNum

RECURSIVE SumOfBudgets(_, _, _)
\* minutesPerDay x workingDaysBetween(startDate, endDate) summed over the
\* assignments with an index in I
SumOfBudgets(assignments, I, tz) ==
  IF I = {} THEN 0
  ELSE LET i == CHOOSE x \in I : TRUE
           a == assignments[i]
           mpd == IF a.minutesPerDay = AbsentNum THEN 0 ELSE a.minutesPerDay
       IN mpd * WorkingDaysBetween(a.startDate, a.endDate, tz)
            + SumOfBudgets(assignments, I \ {i}, tz)

\* C13: a project's budgetMinutes is the sum over the assignments with that
\* project id of minutesPerDay x workingDaysBetween(startDate, endDate); an
\* assignment without a start date or without an end date contributes 0 and
\* a project without assignments has budgetMinutes 0.
C13_BudgetMinutes ==
  ret.fn = "enrichProjectOverview" =>
    \A i \in 1..Len(ret.value.projects) :
      LET row == ret.value.projects[i]
          mine == { k \in 1..Len(call.assignments) : call.assignments[k].projectId = row.id }
          dated == { k \in mine : call.assignments[k].startDate # NoDate
                                    /\ call.assignments[k].endDate # NoDate }
      IN /\ row.budgetMinutes = SumOfBudgets(call.assignments, mine, call.tz)
         /\ row.budgetMinutes = SumOfBudgets(call.assignments, dated, call.tz)
         /\ row.assignmentCount = Cardinality(mine)
         /\ mine = {} => row.budgetMinutes = 0

\* two assignments of one project, one of them without an end date, and a
\* second project without assignments
C13_Witness ==
  /\ ret.fn = "enrichProjectOverview" /\ Len(ret.value.projects) = 2
  /\ ret.value.projects[1].assignmentCount = 2
  /\ \E k \in 1..2 : call.assignments[k].endDate = NoDate /\ call.assignments[k].minutesPerDay = 480
  /\ ret.value.projects[1].budgetMinutes = 2400
  /\ ret.value.projects[2].assignmentCount = 0
  /\ ret.value.projects[2].budgetMinutes = 0

\* the calendar day is a Saturday or a Sunday (day 0 is a Thursday)
IsWeekend(day) == (day + 4) % 7 \in {0, 6}

\* C14: workingDaysBetween(start, end) is the number of days d with
\* start <= d <= end that are neither Saturday nor Sunday; for one day it is
\* 1 on a weekday and 0 on a weekend day; it is 0 when a date is missing.
C14_WorkingDays ==
  ret.fn = "workingDaysBetween" =>
    /\ (call.startDate = NoDate \/ call.endDate = NoDate) => ret.value = 0
    /\ (call.startDate # NoDate /\ call.endDate # NoDate) =>
         /\ ret.value = Cardinality({ d \in call.startDate..call.endDate : ~IsWeekend(d) })
         /\ call.startDate = call.endDate =>
              ret.value = (IF IsWeekend(call.startDate) THEN 0 ELSE 1)

\* west of UTC, Monday 2026-01-05 alone counts no working day
C14_MondayNotCounted ==
  /\ ret.fn = "workingDaysBetween" /\ call.tz < 0
  /\ call.startDate = Mon /\ call.endDate = Mon /\ ret.value = 0

\* in UTC and east of it the count is the number of weekdays
C14_HoldsFromUTCEastwards ==
  (ret.fn = "workingDaysBetween" /\ call.tz >= 0) => C14_WorkingDays

C16_PricingCodeNames ==
  ret.fn = "enrichProjectOverview" =>
    \A i \in 1..Len(ret.value.projects) :
      /\ call.projects[i].pricingModel = 100 => ret.value.projects[i].pricingModel = <<110>>
      /\ call.projects[i].pricingModel = 101 => ret.value.projects[i].pricingModel = <<111>>

\* the projects of the unit test, codes "tm" and "fp", get no label
C16_UnlabelledCodeNames ==
  /\ ret.fn = "enrichProjectOverview" /\ Len(ret.value.projects) = 2
  /\ call.projects[1].pricingModel = 100 /\ ret.value.projects[1].pricingModel = NullStr
  /\ call.projects[2].pricingModel = 101 /\ ret.value.projects[2].pricingModel = NullStr

----------------------------------------------------------------------------
(* Properties of computeCapacityForecast (SpecForecast) *)

\* the assignment has no end date or ends on/after the instant
EndsOnOrAfter(a, instant) == a.endDate = NoDate \/ a.endDate * 24 >= instant

\* the assignment has an end date, on/before the instant
EndsOnOrBefore(a, instant) == a.endDate # NoDate /\ a.endDate * 24 <= instant

\* C17: per person, the active assignments are exactly the person's
\* assignments with no end date or an end date on/after now, endingSoon is
\* exactly the active ones whose end date is present and on/before now +
\* weeks x 7 days, and fullyAvailableAfter is the maximum end date in
\* endingSoon, or null when endingSoon is empty.  (An end date is the
\* instant of its midnight UTC; now is the instant of the call.)
C17_ActiveAndEndingSoon ==
  ret.fn = "computeCapacityForecast" =>
    /\ Len(ret.value.forecast) = Len(call.people)
    /\ \A i \in 1..Len(ret.value.forecast) :
         LET row == ret.value.forecast[i]
             horizon == call.now + call.weeksAhead * 7 * 24
             active == SelectSeq(call.assignments, LAMBDA a :
                         a.personId = call.people[i].id /\ EndsOnOrAfter(a, call.now))
             soon == SelectSeq(active, LAMBDA a : EndsOnOrBefore(a, horizon))
         IN /\ row.id = call.people[i].id
            /\ row.activeAssignments = Len(active)
            /\ Len(row.endingSoon) = Len(soon)
            /\ \A k \in 1..Len(soon) :
                 /\ row.endingSoon[k].startDate = soon[k].startDate
                 /\ row.endingSoon[k].endDate = soon[k].endDate
            /\ soon = <<>> => row.fullyAvailableAfter = NullNum
            /\ soon # <<>> =>
                 /\ \E k \in 1..Len(soon) : row.fullyAvailableAfter = soon[k].endDate
                 /\ \A k \in 1..Len(soon) : row.fullyAvailableAfter >= soon[k].endDate

\* a person with an assignment ending on Friday and one ending the Monday
\* after, both within the forecast
C17_Witness ==
  /\ ret.fn = "computeCapacityForecast" /\ Len(ret.value.forecast) >= 1
  /\ ret.value.forecast[1].activeAssignments = 2
  /\ Len(ret.value.forecast[1].endingSoon) = 2
  /\ ret.value.forecast[1].endingSoon[1].endDate = NextFri
  /\ ret.value.forecast[1].fullyAvailableAfter = Jan2026(12)

\* an assignment that ended before now is not active, and one that ends
\* after the forecast is active but not ending soon
C17_WitnessExcluded ==
  /\ ret.fn = "computeCapacityForecast" /\ Len(ret.value.forecast) >= 1
  /\ Len(call.assignments) = 2 /\ \A k \in 1..2 : call.assignments[k].personId = 1
  /\ call.assignments[1].endDate = Sun /\ call.assignments[2].endDate = Jan2026(20)
  /\ ret.value.forecast[1].activeAssignments = 1
  /\ ret.value.forecast[1].endingSoon = <<>>
  /\ ret.value.forecast[1].fullyAvailableAfter = NullNum

\* the people counted as assigned in the week from weekStart to weekEnd
AssignedIn(people, assignments, weekStart, weekEnd) ==
  { i \in 1..Len(people) :
      \E k \in 1..Len(assignments) :
        LET a == assignments[k]
        IN /\ a.personId = people[i].id
           /\ (a.startDate = NoDate \/ a.startDate * 24 <= weekEnd)
           /\ (a.endDate = NoDate \/ a.endDate * 24 >= weekStart) }

\* C18: there are exactly `weeks` weekly buckets; in bucket w, from now + 7w
\* days to now + 7(w+1) days, a person counts as assigned iff one of their
\* assignments starts on/before the week's end (or has no start) and ends
\* on/after the week's start (or has no end); availableCount is totalPeople
\* minus the assigned count, within 0..totalPeople, and utilization is
\* round(assignedCount / totalPeople x 100, 2), or 0 without people.
C18_WeeklyBuckets ==
  ret.fn = "computeCapacityForecast" =>
    LET buckets == ret.value.weeklyBuckets
        total == ret.value.totalPeople
    IN /\ Len(buckets) = call.weeksAhead
       /\ total = Len(call.people)
       /\ \A w \in 0..(call.weeksAhead - 1) :
            LET weekStart == call.now + 7 * w * 24
                weekEnd == call.now + 7 * (w + 1) * 24
                assignedCount ==
                  Cardinality(AssignedIn(call.people, call.assignments, weekStart, weekEnd))
                b == buckets[w + 1]
            IN /\ b.availableCount = total - assignedCount
               /\ b.availableCount >= 0 /\ b.availableCount <= total
               /\ total > 0 => IsRounded(b.utilization, assignedCount, total)
               /\ total = 0 => b.utilization = 0

\* two people and two weeks: one person is assigned in the first week only,
\* the other from the end of the first week on
C18_Witness ==
  /\ ret.fn = "computeCapacityForecast" /\ ret.value.totalPeople = 2
  /\ Len(ret.value.weeklyBuckets) = 2
  /\ \E j, k \in 1..Len(call.assignments) :
       /\ call.assignments[j].personId = 1 /\ call.assignments[j].endDate = NextFri
       /\ call.assignments[k].personId = 2 /\ call.assignments[k].startDate = Jan2026(12)
  /\ ret.value.weeklyBuckets[1].availableCount = 0
  /\ ret.value.weeklyBuckets[1].utilization = 10000
  /\ ret.value.weeklyBuckets[2].availableCount = 1
  /\ ret.value.weeklyBuckets[2].utilization = 5000

\* no people: every bucket reports 0
C18_WitnessNoPeople ==
  /\ ret.fn = "computeCapacityForecast" /\ ret.value.totalPeople = 0
  /\ Len(ret.value.weeklyBuckets) = 2
  /\ ret.value.weeklyBuckets[1].utilization = 0
  /\ ret.value.weeklyBuckets[1].availableCount = 0

----------------------------------------------------------------------------
(* Properties of search_resources (SpecSearch) *)

\* the resource types a call asks for
RequestedTypes ==
  IF call.resourceType \in {"omitted", "all"} THEN {"people", "projects", "clients"}
  ELSE {call.resourceType}

\* the resource type handled by the step just taken
LastKind ==
  CASE ret.next = "projects" -> "people"
    [] ret.next = "clients" -> "projects"
    [] OTHER -> "clients"

\* the "first last" name of a person: the parts that are present
FullName(p) ==
  IF StrTruthy(p.firstName) /\ StrTruthy(p.lastName) THEN p.firstName \o <<0>> \o p.lastName
  ELSE IF StrTruthy(p.firstName) THEN p.firstName
  ELSE IF StrTruthy(p.lastName) THEN p.lastName ELSE <<>>

\* text is a string that contains the trimmed query, case-insensitively
ContainsQuery(text, query) ==
  IsStr(text) /\ Includes(ToLowerCase(text), ToLowerCase(Trim(query)))

\* the record of a fetched collection matches the query
Matches(kind, x, query) ==
  IF kind = "people"
    THEN ContainsQuery(FullName(x), query) \/ ContainsQuery(x.email, query)
    ELSE ContainsQuery(x.name, query)

\* C19: the result has a key exactly for each requested resource type (all
\* three for "all" or no type); the people list is exactly the fetched
\* people whose "first last" name or e-mail contains the trimmed query
\* case-insensitively, the projects and clients lists exactly the fetched
\* ones whose name contains it.
C19_SearchMatches ==
  ret.fn = "search" =>
    /\ DOMAIN ret.results \subseteq RequestedTypes
    /\ ret.next \in {"return", "done"} => DOMAIN ret.results = RequestedTypes
    /\ ret.next = "done" => (result.isError = FALSE /\ result.text = ret.results)
    /\ (ret.next \in {"projects", "clients", "return"} /\ LastKind \in RequestedTypes) =>
         LET expected == SelectSeq(ret.fetched, LAMBDA x : Matches(LastKind, x, call.query))
             list == ret.results[LastKind]
         IN /\ Len(list) = Len(expected)
            /\ \A i \in 1..Len(list) : list[i].id = expected[i].id

\* the query " a " over two people: one matches by e-mail only, the other
\* does not match
C19_Witness ==
  /\ ret.fn = "search" /\ ret.next = "projects" /\ call.query = <<0, 1, 0>>
  /\ Len(ret.fetched) = 2
  /\ ret.fetched[1].firstName = <<4>> /\ ret.fetched[2].email = NullStr
  /\ Len(ret.results["people"]) = 1 /\ ret.results["people"][1].id = 1

\* a search of all three types returned, with a match in each list
C19_WitnessAll ==
  /\ ret.fn = "search" /\ ret.next = "done" /\ call.resourceType = "omitted"
  /\ DOMAIN result.text = {"people", "projects", "clients"}
  /\ \A k \in DOMAIN result.text : result.text[k] # <<>>

\* C20: with an empty query, or one that is empty after trimming, the
\* result holds an empty list for every requested resource type and is not
\* an error, whatever the fetched collections are.
C20_EmptyQueryFindsNothing ==
  (ret.fn = "search" /\ ret.next = "done" /\ Trim(call.query) = <<>>) =>
    /\ result.isError = FALSE
    /\ DOMAIN result.text = RequestedTypes
    /\ \A k \in DOMAIN result.text : result.text[k] = <<>>

\* the empty query returns a person
C20_EmptyQueryFindsPeople ==
  /\ ret.fn = "search" /\ ret.next = "done" /\ call.query = <<>>
  /\ call.resourceType = "people"
  /\ Len(result.text["people"]) = 1

----------------------------------------------------------------------------
(* Properties of the lookups of the aggregation functions (SpecLookups) *)

\* the name of the supplied record of that id, or the placeholder
Resolved(records, id, placeholder) ==
  IF \E i \in 1..Len(records) : records[i].id = id
    THEN (CHOOSE r \in { records[i] : i \in 1..Len(records) } : r.id = id).name
    ELSE placeholder

\* C21: every aggregation function returns when a foreign key references
\* a record that was not supplied: an unknown team, client or role id gives
\* null, an unknown project id 'Project {id}', an unknown skill id
\* 'Skill {id}' and an unknown person id on a project 'Person {id}'.
C21_MissingRecordsTolerated ==
  /\ ret # NoRet => ret.fn = call.fn
  /\ ret.fn = "computeUtilization" =>
       LET p == call.people[1]
           row == ret.value.people[1]
           fallback == IF StrTruthy(p.role) THEN p.role ELSE NullStr
       IN /\ row.team = Resolved(call.teams, p.teamId, NullStr)
          /\ row.role = Resolved(call.roles, call.assignments[1].roleId, fallback)
  /\ ret.fn = "enrichProjectOverview" =>
       LET p == call.projects[1]
           a == call.assignments[1]
           row == ret.value.projects[1]
       IN /\ row.client = Resolved(call.clients, p.clientId, NullStr)
          /\ row.team = Resolved(call.teams, p.teamId, NullStr)
          /\ Len(row.assignedPeople) = 1
          /\ row.assignedPeople[1].name =
               (IF a.personId = 1 THEN PersonName(call.people[1]) ELSE <<100, a.personId>>)
          /\ row.assignedPeople[1].role = Resolved(call.roles, a.roleId, NullStr)
  /\ ret.fn = "computeCapacityForecast" =>
       LET row == ret.value.forecast[1]
       IN /\ row.team = Resolved(call.teams, call.people[1].teamId, NullStr)
          /\ Len(row.endingSoon) = 1
          /\ row.endingSoon[1].projectName =
               Resolved(call.projects, call.assignments[1].projectId,
                        <<102, call.assignments[1].projectId>>)
  /\ ret.fn = "enrichPersonDetails" =>
       LET a == call.assignments[1]
           v == ret.value
       IN /\ v.team = Resolved(call.teamMap, call.person.teamId, NullStr)
          /\ v.skills[1].name =
               Resolved(call.skillMap, call.personSkills[1].skillId,
                        <<104, call.personSkills[1].skillId>>)
          /\ v.assignments[1].projectName =
               Resolved(call.projects, a.projectId, <<102, a.projectId>>)
          /\ v.assignments[1].role = Resolved(call.roleMap, a.roleId, NullStr)

\* enrichPersonDetails with an unknown team, skill, project and role
C21_Witness ==
  /\ ret.fn = "enrichPersonDetails"
  /\ call.person.teamId = 7 /\ ret.value.team = NullStr
  /\ ret.value.skills[1].name = <<104, 999>>
  /\ ret.value.assignments[1].projectName = <<102, 999>>
  /\ call.assignments[1].roleId = 77 /\ ret.value.assignments[1].role = NullStr

\* enrichProjectOverview with an unknown client, team, person and role
C21_WitnessOverview ==
  /\ ret.fn = "enrichProjectOverview"
  /\ call.projects[1].clientId = 99 /\ ret.value.projects[1].client = NullStr
  /\ call.projects[1].teamId = 7 /\ ret.value.projects[1].team = NullStr
  /\ ret.value.projects[1].assignedPeople[1].name = <<100, 9>>
  /\ call.assignments[1].roleId = 77 /\ ret.value.projects[1].assignedPeople[1].role = NullStr

----------------------------------------------------------------------------
(* Properties of the backoff of withRetry (SpecBackoff) *)

\* 2^k seconds
TwoToThe(k) == CASE k = 0 -> 1 [] k = 1 -> 2 [] k = 2 -> 4 [] OTHER -> 8

\* the wait after the failures so far: the Retry-After seconds of the last
\* failed response, or 2^k after the k-th failure without that header
WaitDue(fails) ==
  LET last == fails[Len(fails)]
  IN IF last.retryAfter # NoHeader THEN last.retryAfter ELSE TwoToThe(Len(fails) - 1)

\* C22: after the k-th failed retryable attempt (k from 0) withRetry waits
\* the seconds of the failed response's Retry-After header when present,
\* otherwise 2^k seconds (1, 2, 4), and the next attempt does not start
\* before that wait has elapsed.
C22_BackoffDelay ==
  /\ [](L.pc = "backoff" => (L.delay = WaitDue(L.fails) /\ L.attempt = Len(L.fails) - 1))
  /\ [][(L.pc = "backoff" /\ fetch'["list"].pc # "backoff")
          => (fetch'["list"].pc = "inflight" /\ call.waited >= WaitDue(L.fails))]_vars

\* the third retry starts, 4 seconds after the third failure
C22_Witness ==
  /\ L.pc = "inflight" /\ L.tries = 4 /\ Len(L.fails) = 3
  /\ \A i \in 1..3 : L.fails[i].retryAfter = NoHeader
  /\ call.waited = 4

\* a retry starts 3 seconds after a 429 with Retry-After: 3
C22_WitnessHeader ==
  /\ L.pc = "inflight" /\ L.tries = 2 /\ L.fails[1].retryAfter = 3
  /\ call.waited = 3

----------------------------------------------------------------------------
(* Properties of the backoff among concurrent fetches (SpecTools) *)

\* sibling g of the waiting fetch f can take its next step, f still waiting
SiblingProceeds(f, g) ==
  CASE fetch[g].pc = "inflight" ->
         ENABLED (RespondOk(g) /\ fetch'[g].pc \in {"ok", "inflight"} /\ fetch'[f] = fetch[f])
    [] fetch[g].pc = "backoff" ->
         ENABLED (BackoffElapsed(g) /\ fetch'[g].tries = fetch[g].tries + 1 /\ fetch'[f] = fetch[f])
    [] OTHER -> fetch[g].pc \in {"ok", "failed"}

----------------------------------------------------------------------------
(* Properties of the displayed role (SpecUtilization) *)

\* the positions of the person's assignments in the supplied sequence
AssignmentIndexes(pid) == { k \in 1..Len(call.assignments) : call.assignments[k].personId = pid }

\* the roles with the id of the person's first supplied assignment that
\* carry a name
FirstAssignmentRoles(pid) ==
  IF AssignmentIndexes(pid) = {} THEN {}
  ELSE LET first == CHOOSE k \in AssignmentIndexes(pid) : \A j \in AssignmentIndexes(pid) : k <= j
       IN { i \in 1..Len(call.roles) :
              /\ call.assignments[first].roleId # 0
              /\ call.roles[i].id = call.assignments[first].roleId
              /\ StrTruthy(call.roles[i].name) }

\* C24: a person's displayed role is the name of the role referenced by the
\* roleId of the person's first assignment in supplied order; when that
\* role does not resolve it is the person's role field, and null when that
\* is absent too; later assignments do not influence it.
C24_RoleOfFirstAssignment ==
  ret.fn = "computeUtilization" =>
    \A i \in 1..Len(ret.value.people) :
      LET row == ret.value.people[i]
          p == CHOOSE q \in { call.people[k] : k \in 1..Len(call.people) } : q.id = row.id
          named == FirstAssignmentRoles(row.id)
      IN row.role = IF named # {} THEN call.roles[CHOOSE r \in named : TRUE].name
                    ELSE IF StrTruthy(p.role) THEN p.role
                    ELSE NullStr

\* the first assignment (which starts later than the second) references a
\* role that was not supplied, the second one the role "De": the row shows
\* the person's own role field
C24_Witness ==
  /\ ret.fn = "computeUtilization" /\ Len(ret.value.people) = 1
  /\ Len(call.assignments) = 2
  /\ call.assignments[1] = [personId |-> 1, roleId |-> 77, startDate |-> Jan2026(12)]
  /\ call.assignments[2] = [personId |-> 1, roleId |-> 10, startDate |-> Jan2026(5)]
  /\ call.people[1].role = <<6>>
  /\ ret.value.people[1].role = <<6>>

\* the first assignment references "Ef", the second "De": the row shows "Ef"
C24_WitnessResolved ==
  /\ ret.fn = "computeUtilization" /\ Len(call.assignments) = 2
  /\ call.assignments[1].personId = 1 /\ call.assignments[1].roleId = 11
  /\ call.assignments[2].personId = 1 /\ call.assignments[2].roleId = 10
  /\ ret.value.people[1].role = <<15, 6>>

----------------------------------------------------------------------------
(* Properties of the HTTP sessions (SpecHttp) *)

\* the request routed by the step, with the registry as the handler found it
RoutedAsClaimed(r) ==
  IF r.sessionId # 0 /\ Registered(transports, r.sessionId)
    THEN ret'.outcome = "handed" /\ ret'.transport = r.sessionId
  ELSE IF r.sessionId = 0 /\ r.method = "POST" /\ r.init
    THEN ret'.outcome = "created" /\ ret'.transport = Len(call.created) + 1
  ELSE ret'.outcome = "400" /\ call' = call

\* C25: a request to /mcp is handed to a transport only when it carries a
\* registered session id (to that session's transport) or carries none and
\* is a POST initialize request (to a new transport); every other request
\* is answered with 400 and leaves the registry unchanged.
C25_Routing ==
  [][(call.fn = "main" /\ ret' # ret) => RoutedAsClaimed(ret'.req)]_vars

\* the same for requests whose session id is not a key of Object.prototype
C25_RoutingOfOwnKeys ==
  [][(call.fn = "main" /\ ret' # ret /\ ret'.req.sessionId # ProtoKey)
       => RoutedAsClaimed(ret'.req)]_vars

\* C26: the registry holds a session id exactly while its transport has been
\* session-initialized and has not closed; an entry is added only by the
\* session-initialized callback and removed when the transport closes, and
\* the id of a closed session is never routed to again.
C26_RegistryLifecycle ==
  /\ [](call.fn = "main" =>
          /\ \A i, j \in 1..Len(transports) : transports[i] = transports[j] => i = j
          /\ \A i \in 1..Len(transports) : transports[i] \in 1..Len(call.created)
          /\ \A t \in 1..Len(call.created) :
               Registered(transports, t) <=> call.created[t].st = "open")
  /\ [][call.fn = "main" =>
          \A t \in 1..Len(call.created) :
            /\ (~Registered(transports, t) /\ Registered(call'.transports, t))
                 => (call.created[t].st = "new" /\ call'.created[t].st = "open")
            /\ (Registered(transports, t) /\ ~Registered(call'.transports, t))
                 => (call'.created[t].st = "closed" /\ call'.created[t].closeInvoked)
            /\ call.created[t].st = "closed"
                 => /\ call'.created[t].st = "closed"
                    /\ (ret' # ret /\ ret'.req.sessionId = t) => ret'.outcome = "400"]_vars

\* session 1 has closed while session 2 is open; a request carrying the id
\* of session 1 was answered with 400
C26_Witness ==
  /\ call.fn = "main" /\ Len(call.created) = 2
  /\ call.created[1].st = "closed" /\ call.created[2].st = "open"
  /\ transports = <<2>>
  /\ ret.fn = "route" /\ ret.req.sessionId = 1 /\ ret.outcome = "400"

\* C27: on SIGINT every session transport that is registered when the
\* process exits has had close invoked on it, and the exit status is 0.
C27_ShutdownClosesRegistered ==
  (call.fn = "main" /\ call.sigint.pc = "done") =>
    /\ call.exit = 0
    /\ \A i \in 1..Len(transports) : call.created[transports[i]].closeInvoked

----------------------------------------------------------------------------
(* Properties of a retried page fetch inside paginate (SpecFetch) *)

\* C28: when a page fetch inside paginate fails retryably and is retried,
\* the retry carries the cursor of the failed attempt, the values of the
\* pages accumulated so far are kept, the retried page's values appear once
\* at that page's position, and failed attempts do not count towards the
\* 10-page cap.
C28_RetryKeepsPlace ==
  /\ [](/\ L.all = ConcatWalk(Src, L.received)
        /\ L.pages = L.received)
  /\ [][/\ (L.pc = "inflight" /\ fetch'["list"].pc = "backoff")
             => /\ fetch'["list"].all = L.all
                /\ fetch'["list"].pages = L.pages
                /\ fetch'["list"].cursor = L.cursor
        /\ (L.pc = "backoff" /\ fetch'["list"].pc # "backoff")
             => /\ fetch'["list"].pc = "inflight"
                /\ fetch'["list"].reqCursor = L.reqCursor
                /\ fetch'["list"].all = L.all
                /\ fetch'["list"].pages = L.pages]_vars

\* the third page (cursor 2) failed with 503 and is being requested again,
\* the values of the first two pages in hand
C28_Witness ==
  /\ L.pc = "inflight" /\ L.tries = 2 /\ L.fails = <<HttpErr(503)>>
  /\ L.received = 2 /\ L.reqCursor = 2
  /\ L.all = ConcatWalk(Src, 2) /\ Len(L.all) >= 2

\* three attempts failed on the way and the tenth page was still received
C28_WitnessCap ==
  /\ L.pc = "ok" /\ failures >= 3 /\ L.received = 10
  /\ L.all = ConcatWalk(Src, 10)

----------------------------------------------------------------------------
(* Properties relating the counts of a forecast (SpecForecast) *)

\* the rows of the result counted as assigned in the week starting at the
\* instant of the call
AssignedInWeek0 ==
  { i \in 1..Len(ret.value.forecast) :
      \E k \in 1..Len(call.assignments) :
        LET a == call.assignments[k]
        IN /\ a.personId = ret.value.forecast[i].id
           /\ (a.startDate = NoDate \/ a.startDate * 24 <= call.now + 7 * 24)
           /\ (a.endDate = NoDate \/ a.endDate * 24 >= call.now) }

\* C29: with at least one weekly bucket, currentlyUnassigned is at most
\* weeklyBuckets[0].availableCount, since a person with zero active
\* assignments is not counted as assigned in week 0; every person with an
\* endingSoon assignment has an active assignment, so currentlyUnassigned +
\* withEndingSoonAssignments <= totalPeople.
C29_CountsConsistent ==
  ret.fn = "computeCapacityForecast" =>
    LET v == ret.value
    IN /\ Len(v.weeklyBuckets) >= 1 =>
            /\ v.currentlyUnassigned <= v.weeklyBuckets[1].availableCount
            /\ v.weeklyBuckets[1].availableCount = v.totalPeople - Cardinality(AssignedInWeek0)
            /\ \A i \in 1..Len(v.forecast) :
                 v.forecast[i].activeAssignments = 0 => i \notin AssignedInWeek0
       /\ \A i \in 1..Len(v.forecast) :
            Len(v.forecast[i].endingSoon) > 0 => v.forecast[i].activeAssignments >= 1
       /\ v.currentlyUnassigned =
            Cardinality({ i \in 1..Len(v.forecast) : v.forecast[i].activeAssignments = 0 })
       /\ v.currentlyUnassigned + v.withEndingSoonAssignments <= v.totalPeople

\* two people at Monday 00:00: the first one's assignment ends that Monday
\* (active, ending soon, assigned in week 0), the second one's ended the
\* day before (unassigned, available in week 0)
C29_Witness ==
  /\ ret.fn = "computeCapacityForecast" /\ call.now = NewDate(Mon)
  /\ ret.value.totalPeople = 2 /\ Len(ret.value.weeklyBuckets) >= 1
  /\ Len(call.assignments) = 2
  /\ call.assignments[1].personId = 1 /\ call.assignments[1].endDate = Mon
  /\ call.assignments[2].personId = 2 /\ call.assignments[2].endDate = Sun
  /\ ret.value.currentlyUnassigned = 1 /\ ret.value.withEndingSoonAssignments = 1
  /\ ret.value.weeklyBuckets[1].availableCount = 1

----------------------------------------------------------------------------
(* Properties of the teams shown under a team filter (SpecUtilization) *)

\* the name contains the filter, case-insensitively
NameMatches(name, filter) ==
  name # NullStr /\ IsStr(name) /\ Includes(ToLowerCase(name), ToLowerCase(filter))

\* C30: given a team filter, every person row of the result shows a team
\* name that contains the filter case-insensitively, and every entry of the
\* teams summary is named after a team that matches the filter.
C30_ShownTeamsMatch ==
  (ret.fn = "computeUtilization" /\ StrTruthy(call.teamNameFilter)) =>
    /\ \A i \in 1..Len(ret.value.people) :
         NameMatches(ret.value.people[i].team, call.teamNameFilter)
    /\ \A j \in 1..Len(ret.value.teams) :
         /\ ret.value.teams[j].name # <<101>>
         /\ \E k \in 1..Len(call.teams) :
              /\ call.teams[k].name = ret.value.teams[j].name
              /\ NameMatches(call.teams[k].name, call.teamNameFilter)

\* a person of the teams "Bc" and "Ab" (teamId "Ab", teamIds ["Bc"]),
\* kept by the filter "c", is shown with team "Ab"
C30_OtherTeamShown ==
  /\ ret.fn = "computeUtilization" /\ call.teamNameFilter = <<3>>
  /\ Len(call.people) = 1 /\ call.people[1].teamId = 1 /\ call.people[1].teamIds = <<2>>
  /\ Len(ret.value.people) = 1 /\ ret.value.people[1].team = <<11, 2>>

\* a person whose teamIds are a team without a name and "Ab", kept by the
\* filter "a", is shown without a team and summarised under "Unassigned"
C30_UnassignedShown ==
  /\ ret.fn = "computeUtilization" /\ call.teamNameFilter = <<1>>
  /\ Len(call.people) = 1 /\ call.people[1].teamIds = <<3, 1>>
  /\ Len(ret.value.people) = 1 /\ ret.value.people[1].team = NullStr
  /\ ret.value.teams[1].name = <<101>>

====
